---------------------------- MODULE Spec2Model ----------------------------
(***************************************************************************)
(* Model of the ModelFile validator / normalizer / submission path of the  *)
(* Ollama model creator front end (OllamaService in services/ollama.ts and *)
(* its revision embedded in components/layout/AppLayout.tsx).              *)
(*                                                                         *)
(* Text is modelled character by character: a JavaScript string is a       *)
(* sequence of one-character strings, so that trim, split, startsWith,     *)
(* slice, replace, parseFloat and Number.toString are computed the way the *)
(* code computes them.  Values that the code binds with const and uses     *)
(* several times are passed as operator parameters.                        *)
(***************************************************************************)
EXTENDS Integers, Sequences, FiniteSets, TLC

(***************************************************************************)
(* JavaScript string primitives                                            *)
(***************************************************************************)

\* the characters matched by \s (and stripped by trim) that occur in the texts
WhiteSpace == {" ", "\t", "\n"}

NL == "\n"

DigitChars == <<"0", "1", "2", "3", "4", "5", "6", "7", "8", "9">>

IsDigit(c) == \E i \in 1..10 : DigitChars[i] = c

DigitVal(c) == (CHOOSE i \in 1..10 : DigitChars[i] = c) - 1

LowerChars == <<"a", "b", "c", "d", "e", "f", "g", "h", "i", "j", "k", "l", "m", "n", "o", "p", "q", "r", "s", "t", "u", "v", "w", "x", "y", "z">>

UpperChars == <<"A", "B", "C", "D", "E", "F", "G", "H", "I", "J", "K", "L", "M", "N", "O", "P", "Q", "R", "S", "T", "U", "V", "W", "X", "Y", "Z">>

IsLower(c) == \E i \in 1..26 : LowerChars[i] = c

IsUpper(c) == \E i \in 1..26 : UpperChars[i] = c

upperChar(c) == IF IsLower(c) THEN UpperChars[CHOOSE i \in 1..26 : LowerChars[i] = c] ELSE c

lowerChar(c) == IF IsUpper(c) THEN LowerChars[CHOOSE i \in 1..26 : UpperChars[i] = c] ELSE c

\* String.prototype.toUpperCase / toLowerCase
toUpperCase(s) == [i \in 1..Len(s) |-> upperChar(s[i])]

toLowerCase(s) == [i \in 1..Len(s) |-> lowerChar(s[i])]

RECURSIVE trimStart(_)
trimStart(s) == IF s # <<>> /\ Head(s) \in WhiteSpace THEN trimStart(Tail(s)) ELSE s

RECURSIVE trimEnd(_)
trimEnd(s) ==
    IF s # <<>> /\ s[Len(s)] \in WhiteSpace THEN trimEnd(SubSeq(s, 1, Len(s) - 1)) ELSE s

\* String.prototype.trim
trim(s) == trimEnd(trimStart(s))

startsWith(s, p) == Len(s) >= Len(p) /\ SubSeq(s, 1, Len(p)) = p

endsWith(s, p) == Len(s) >= Len(p) /\ SubSeq(s, Len(s) - Len(p) + 1, Len(s)) = p

\* s.startsWith(q) && s.endsWith(q)
quotedBy(s, q) == startsWith(s, q) /\ endsWith(s, q)

\* s.includes(t)
includes(s, t) == \E i \in 0..(Len(s) - Len(t)) : SubSeq(s, i + 1, i + Len(t)) = t

\* s.substring(n)
substring(s, n) == SubSeq(s, n + 1, Len(s))

\* s.slice(n, -n): n characters dropped at each end (empty when they overlap)
slice(s, n) == IF Len(s) - n <= n THEN <<>> ELSE SubSeq(s, n + 1, Len(s) - n)

\* s.replace(/[<chars>]/g, '')
removeChars(s, chars) == SelectSeq(s, LAMBDA c : c \notin chars)

\* s.replace(/[^<chars>]/g, '')
keepChars(s, chars) == SelectSeq(s, LAMBDA c : c \in chars)

\* index of the first character of s that lies in chars, 0 when there is none
firstIndex(s, chars) ==
    IF \E i \in 1..Len(s) : s[i] \in chars
    THEN CHOOSE i \in 1..Len(s) : s[i] \in chars /\ \A j \in 1..(i - 1) : s[j] \notin chars
    ELSE 0

\* s.split('\n')
RECURSIVE splitLines(_)
splitLines(s) ==
    IF firstIndex(s, {NL}) = 0 THEN <<s>>
    ELSE <<SubSeq(s, 1, firstIndex(s, {NL}) - 1)>>
         \o splitLines(SubSeq(s, firstIndex(s, {NL}) + 1, Len(s)))

\* s.split(/\s+/)
RECURSIVE splitSpaces(_)
splitSpaces(s) ==
    IF firstIndex(s, WhiteSpace) = 0 THEN <<s>>
    ELSE <<SubSeq(s, 1, firstIndex(s, WhiteSpace) - 1)>>
         \o splitSpaces(trimStart(SubSeq(s, firstIndex(s, WhiteSpace) + 1, Len(s))))

\* parts.join(sep)
RECURSIVE join(_, _)
join(parts, sep) ==
    IF parts = <<>> THEN <<>>
    ELSE IF Len(parts) = 1 THEN parts[1]
    ELSE parts[1] \o sep \o join(Tail(parts), sep)

(***************************************************************************)
(* JavaScript numbers.  A finite number is the exact decimal m * 10^e,     *)
(* NaN is the record with nan = TRUE.  The literals of the model have few  *)
(* significant digits, for which IEEE doubles round-trip exactly through   *)
(* parseFloat and toString.                                                *)
(***************************************************************************)

NaN == [nan |-> TRUE, m |-> 0, e |-> 0]

Num(m, e) == [nan |-> FALSE, m |-> m, e |-> e]

isNaN(x) == x.nan

RECURSIVE Pow10(_)
Pow10(n) == IF n <= 0 THEN 1 ELSE 10 * Pow10(n - 1)

RECURSIVE digitsToNat(_)
digitsToNat(ds) ==
    IF ds = <<>> THEN 0 ELSE 10 * digitsToNat(SubSeq(ds, 1, Len(ds) - 1)) + DigitVal(ds[Len(ds)])

RECURSIVE natToDigits(_)
natToDigits(n) ==
    IF n < 10 THEN <<DigitChars[n + 1]>> ELSE natToDigits(n \div 10) \o <<DigitChars[(n % 10) + 1]>>

\* the longest prefix of s made of decimal digits
RECURSIVE digitPrefix(_)
digitPrefix(s) ==
    IF s # <<>> /\ IsDigit(Head(s)) THEN <<Head(s)>> \o digitPrefix(Tail(s)) ELSE <<>>

\* m * 10^e with the trailing zeros of m moved into e
RECURSIVE stripZeros(_)
stripZeros(x) ==
    IF x.nan \/ x.m = 0 THEN x
    ELSE IF x.m % 10 = 0 THEN stripZeros(Num(x.m \div 10, x.e + 1))
    ELSE x

Abs(n) == IF n < 0 THEN -n ELSE n

Min(a, b) == IF a < b THEN a ELSE b

\* the position of the decimal point: |x| = 0.d1d2...dk * 10^n
magnitude(x) == Len(natToDigits(Abs(x.m))) + x.e

\* a < b for two non-zero numbers of the same sign without trailing zeros
lessStripped(a, b) ==
    IF magnitude(a) # magnitude(b)
    THEN (IF a.m > 0 THEN magnitude(a) < magnitude(b) ELSE magnitude(b) < magnitude(a))
    ELSE a.m * Pow10(a.e - Min(a.e, b.e)) < b.m * Pow10(b.e - Min(a.e, b.e))

\* x < y (every comparison with NaN is false)
lessThan(x, y) ==
    IF x.nan \/ y.nan THEN FALSE
    ELSE IF x.m = 0 \/ y.m = 0 \/ (x.m < 0) # (y.m < 0) THEN x.m < y.m
    ELSE lessStripped(stripZeros(x), stripZeros(y))

\* Number.isInteger
isInteger(x) == ~x.nan /\ (x.m = 0 \/ stripZeros(x).e >= 0)

signOf(s) == IF s # <<>> /\ Head(s) = "-" THEN -1 ELSE 1

unsigned(s) == IF s # <<>> /\ Head(s) \in {"-", "+"} THEN Tail(s) ELSE s

\* the digits after a decimal point at the head of s
fractionOf(s) == IF s # <<>> /\ Head(s) = "." THEN digitPrefix(Tail(s)) ELSE <<>>

\* what follows the decimal point and its digits at the head of s
afterFraction(s) == IF s # <<>> /\ Head(s) = "." THEN substring(s, 1 + Len(digitPrefix(Tail(s)))) ELSE s

\* the value of an exponent part (e, optional sign, digits) at the head of s
exponentOf(s) ==
    IF s # <<>> /\ Head(s) \in {"e", "E"} /\ digitPrefix(unsigned(Tail(s))) # <<>>
    THEN signOf(Tail(s)) * digitsToNat(digitPrefix(unsigned(Tail(s))))
    ELSE 0

\* the number with integer digits ip, fraction digits fp and exponent part at rest
decimalOf(sign, ip, fp, rest) ==
    IF ip = <<>> /\ fp = <<>> THEN NaN
    ELSE Num(sign * digitsToNat(ip \o fp), exponentOf(rest) - Len(fp))

\* the number written at the head of the unsigned text s, whose integer digits are ip
unsignedOf(sign, s, ip) ==
    decimalOf(sign, ip, fractionOf(substring(s, Len(ip))), afterFraction(substring(s, Len(ip))))

\* parseFloat: the longest prefix that is a decimal literal, NaN when there is none
parseFloat(str) ==
    unsignedOf(signOf(trimStart(str)), unsigned(trimStart(str)), digitPrefix(unsigned(trimStart(str))))

Zeros(n) == [i \in 1..n |-> "0"]

\* the exponent part of Number::toString: sign and digits of n - 1
exponentText(ex) == (IF ex < 0 THEN <<"-">> ELSE <<"+">>) \o natToDigits(Abs(ex))

\* Number::toString for the digits ds of a number 0.ds * 10^n
digitsText(ds, n) ==
    IF Len(ds) <= n /\ n <= 21 THEN ds \o Zeros(n - Len(ds))
    ELSE IF 0 < n /\ n <= 21 THEN SubSeq(ds, 1, n) \o <<".">> \o SubSeq(ds, n + 1, Len(ds))
    ELSE IF -6 < n /\ n <= 0 THEN <<"0", ".">> \o Zeros(-n) \o ds
    ELSE IF Len(ds) = 1 THEN ds \o <<"e">> \o exponentText(n - 1)
    ELSE <<ds[1], ".">> \o SubSeq(ds, 2, Len(ds)) \o <<"e">> \o exponentText(n - 1)

\* Number.prototype.toString (radix 10)
toString(x) ==
    IF x.nan THEN <<"N", "a", "N">>
    ELSE IF x.m = 0 THEN <<"0">>
    ELSE (IF x.m < 0 THEN <<"-">> ELSE <<>>)
         \o digitsText(natToDigits(Abs(stripZeros(x).m)), magnitude(stripZeros(x)))

(***************************************************************************)
(* Keywords and parameter names of the service                             *)
(***************************************************************************)

FROM_ == <<"F", "R", "O", "M", " ">>

PARAMETER_ == <<"P", "A", "R", "A", "M", "E", "T", "E", "R", " ">>

SYSTEM_ == <<"S", "Y", "S", "T", "E", "M", " ">>

temperature == <<"t", "e", "m", "p", "e", "r", "a", "t", "u", "r", "e">>

top_p == <<"t", "o", "p", "_", "p">>

top_k == <<"t", "o", "p", "_", "k">>

repeat_penalty == <<"r", "e", "p", "e", "a", "t", "_", "p", "e", "n", "a", "l", "t", "y">>

num_ctx == <<"n", "u", "m", "_", "c", "t", "x">>

num_predict == <<"n", "u", "m", "_", "p", "r", "e", "d", "i", "c", "t">>

DQ == "\""

SQ == "'"

TQ == <<DQ, DQ, DQ>>

\* numericParams of cleanParameterValue, the same list in validateModelFile
numericParams == {temperature, top_p, top_k, repeat_penalty, num_ctx, num_predict}

\* the defaults table of cleanParameterValue
defaults(name) ==
    CASE name = temperature -> <<"0", ".", "8">>
      [] name = top_p -> <<"0", ".", "9">>
      [] name = top_k -> <<"4", "0">>
      [] name = repeat_penalty -> <<"1", ".", "1">>
      [] name = num_ctx -> <<"2", "0", "4", "8">>
      [] name = num_predict -> <<"1", "2", "8">>

\* the revisions of OllamaService in the repository
Revisions == {"services", "layout"}

(***************************************************************************)
(* OllamaService.validateModelFile (the same text in both revisions)       *)
(***************************************************************************)

Err(rule, text) == [rule |-> rule, text |-> text]

\* /^[a-zA-Z0-9._:-]+$/.test(s)
isModelName(s) ==
    /\ s # <<>>
    /\ \A i \in 1..Len(s) : IsLower(s[i]) \/ IsUpper(s[i]) \/ IsDigit(s[i]) \/ s[i] \in {".", "_", ":", "-"}

trimAll(ls) == [i \in 1..Len(ls) |-> trim(ls[i])]

\* modelfile.split('\n').map(line => line.trim()).filter(line => line && !line.startsWith('#'))
directiveLines(modelfile) ==
    SelectSeq(trimAll(splitLines(modelfile)), LAMBDA l : l # <<>> /\ ~startsWith(l, <<"#">>))

\* lines.filter(line => line.toUpperCase().startsWith(keyword))
linesOf(modelfile, keyword) ==
    SelectSeq(directiveLines(modelfile), LAMBDA l : startsWith(toUpperCase(l), keyword))

\* the checks on the one FROM line, split into fromParts
validateFromParts(fromParts) ==
    IF Len(fromParts) < 2 \/ trim(fromParts[2]) = <<>> THEN <<Err("fromWithoutName", <<>>)>>
    ELSE IF ~isModelName(trim(fromParts[2])) THEN <<Err("invalidModelName", trim(fromParts[2]))>>
    ELSE <<>>

\* validateFrom without the branch for more than one FROM line
validateFromFirstOnly(fromLines) ==
    IF Len(fromLines) = 0 THEN <<Err("missingFrom", <<>>)>>
    ELSE validateFromParts(splitSpaces(fromLines[1]))

\* the FROM rules, an if / else-if / else chain
validateFrom(fromLines) ==
    IF Len(fromLines) = 0 THEN <<Err("missingFrom", <<>>)>>
    ELSE IF Len(fromLines) > 1 THEN <<Err("multipleFrom", <<>>)>>
    ELSE validateFromParts(splitSpaces(fromLines[1]))

\* numValue < min || numValue > max
outOfRange(numValue, min, max) == lessThan(numValue, min) \/ lessThan(max, numValue)

\* the switch over the parameter name, reached with a parsed number
validateRange(paramName, numValue) ==
    CASE paramName = temperature ->
           IF outOfRange(numValue, Num(1, -1), Num(20, -1))
           THEN <<Err("temperatureRange", toString(numValue))>> ELSE <<>>
      [] paramName = top_p ->
           IF outOfRange(numValue, Num(1, -1), Num(10, -1))
           THEN <<Err("topPRange", toString(numValue))>> ELSE <<>>
      [] paramName = top_k ->
           IF outOfRange(numValue, Num(1, 0), Num(100, 0)) \/ ~isInteger(numValue)
           THEN <<Err("topKRange", toString(numValue))>> ELSE <<>>
      [] paramName = repeat_penalty ->
           IF outOfRange(numValue, Num(5, -1), Num(20, -1))
           THEN <<Err("repeatPenaltyRange", toString(numValue))>> ELSE <<>>
      [] paramName = num_ctx ->
           IF outOfRange(numValue, Num(512, 0), Num(32768, 0)) \/ ~isInteger(numValue)
           THEN <<Err("numCtxRange", toString(numValue))>> ELSE <<>>
      [] OTHER -> <<>>

\* the checks on a numeric parameter: paramValue is parts[2], numValue its parseFloat
validateNumeric(paramName, paramValue, numValue) ==
    IF isNaN(numValue) THEN <<Err("invalidNumber", paramName \o <<":">> \o paramValue)>>
    ELSE validateRange(paramName, numValue)

\* the checks on a PARAMETER line split into parts
validateParameterParts(paramLine, parts) ==
    IF Len(parts) < 3 THEN <<Err("invalidParameter", paramLine)>>
    ELSE IF toLowerCase(parts[2]) \in numericParams
    THEN validateNumeric(toLowerCase(parts[2]), parts[3], parseFloat(parts[3]))
    ELSE <<>>

\* the body of the loop over the PARAMETER lines
validateParameterLine(paramLine) == validateParameterParts(paramLine, splitSpaces(paramLine))

\* the body of the loop over the SYSTEM lines
validateSystemLine(systemLine) ==
    IF trim(substring(systemLine, 7)) = <<>> THEN <<Err("emptySystem", systemLine)>> ELSE <<>>

RECURSIVE validateParameters(_)
validateParameters(parameterLines) ==
    IF parameterLines = <<>> THEN <<>>
    ELSE validateParameterLine(Head(parameterLines)) \o validateParameters(Tail(parameterLines))

RECURSIVE validateSystems(_)
validateSystems(systemLines) ==
    IF systemLines = <<>> THEN <<>>
    ELSE validateSystemLine(Head(systemLines)) \o validateSystems(Tail(systemLines))

\* return { isValid: errors.length === 0, errors }
validationResult(errors) == [isValid |-> Len(errors) = 0, errors |-> errors]

\* validateModelFile returning at the first violation
validateModelFileFailFast(modelfile) ==
    IF validateFrom(linesOf(modelfile, FROM_)) # <<>>
    THEN validationResult(validateFrom(linesOf(modelfile, FROM_)))
    ELSE IF validateParameters(linesOf(modelfile, PARAMETER_)) # <<>>
    THEN validationResult(<<Head(validateParameters(linesOf(modelfile, PARAMETER_)))>>)
    ELSE validationResult(validateSystems(linesOf(modelfile, SYSTEM_)))

validateModelFile(modelfile) ==
    validationResult(validateFrom(linesOf(modelfile, FROM_))
                     \o validateParameters(linesOf(modelfile, PARAMETER_))
                     \o validateSystems(linesOf(modelfile, SYSTEM_)))

(***************************************************************************)
(* OllamaService.cleanParameterValue and cleanModelFile                    *)
(***************************************************************************)

\* the default when parsed is NaN, parsed.toString() otherwise
formatParsed(paramName, parsed) ==
    IF isNaN(parsed) THEN defaults(paramName) ELSE toString(parsed)

cleanParameterValue(paramName, value) ==
    IF toLowerCase(paramName) \in numericParams
    THEN formatParsed(toLowerCase(paramName),
                      parseFloat(keepChars(value, {DigitChars[i] : i \in 1..10} \cup {"."})))
    ELSE value

\* SYSTEM branch of services/ollama.ts: one if / else-if chain, '"' tested first
cleanSystemContentServices(systemContent) ==
    IF quotedBy(systemContent, <<DQ>>) THEN slice(systemContent, 1)
    ELSE IF quotedBy(systemContent, <<SQ>>) THEN slice(systemContent, 1)
    ELSE IF quotedBy(systemContent, TQ) THEN slice(systemContent, 3)
    ELSE systemContent

\* the while loop of the AppLayout.tsx revision
RECURSIVE stripNestedQuotes(_)
stripNestedQuotes(cleanContent) ==
    IF quotedBy(cleanContent, TQ) THEN stripNestedQuotes(slice(cleanContent, 3))
    ELSE IF quotedBy(cleanContent, <<DQ>>) THEN stripNestedQuotes(slice(cleanContent, 1))
    ELSE cleanContent

\* SYSTEM branch of the AppLayout.tsx revision: '"""' tested first, then the loop
cleanSystemContentLayout(systemContent) ==
    stripNestedQuotes(
        IF quotedBy(systemContent, TQ) THEN slice(systemContent, 3)
        ELSE IF quotedBy(systemContent, <<DQ>>) THEN slice(systemContent, 1)
        ELSE IF quotedBy(systemContent, <<SQ>>) THEN slice(systemContent, 1)
        ELSE systemContent)

cleanSystemContent(rev, systemContent) ==
    IF rev = "layout" THEN cleanSystemContentLayout(systemContent)
    ELSE cleanSystemContentServices(systemContent)

Thrown(message) == [ok |-> FALSE, text |-> <<>>, error |-> message]

Returned(text) == [ok |-> TRUE, text |-> text, error |-> "none"]

\* the FROM branch
cleanFromLine(parts) ==
    IF Len(parts) >= 2 /\ trim(parts[2]) # <<>>
    THEN Returned(FROM_ \o removeChars(trim(parts[2]), {SQ, DQ}))
    ELSE Thrown("fromWithoutName")

\* the PARAMETER branch
cleanParameterLine(trimmedLine, parts) ==
    IF Len(parts) >= 3
    THEN Returned(PARAMETER_ \o parts[2] \o <<" ">>
                  \o cleanParameterValue(parts[2], join(SubSeq(parts, 3, Len(parts)), <<" ">>)))
    ELSE Returned(trimmedLine)

\* the SYSTEM branch
cleanSystemLine(rev, trimmedLine) ==
    Returned(SYSTEM_ \o TQ \o cleanSystemContent(rev, trim(substring(trimmedLine, 7))) \o TQ)

\* one iteration of the loop of cleanModelFile on a trimmed line
cleanTrimmedLine(rev, trimmedLine) ==
    IF trimmedLine = <<>> THEN Returned(<<>>)
    ELSE IF startsWith(trimmedLine, <<"#">>) THEN Returned(trimmedLine)
    ELSE IF startsWith(toUpperCase(trimmedLine), FROM_) THEN cleanFromLine(splitSpaces(trimmedLine))
    ELSE IF startsWith(toUpperCase(trimmedLine), PARAMETER_)
    THEN cleanParameterLine(trimmedLine, splitSpaces(trimmedLine))
    ELSE IF startsWith(toUpperCase(trimmedLine), SYSTEM_) THEN cleanSystemLine(rev, trimmedLine)
    ELSE Returned(trimmedLine)

\* the line pushed for a line of the text, or the error thrown on it
cleanLine(rev, line) == cleanTrimmedLine(rev, trim(line))

cleanLines(rev, lines) == [i \in 1..Len(lines) |-> cleanLine(rev, lines[i])]

\* hasFromInstruction that looks at the first line only
hasFromInstructionFirstLine(lines) ==
    Len(lines) > 0 /\ startsWith(toUpperCase(trim(lines[1])), FROM_)

\* hasFromInstruction after the loop
hasFromInstruction(lines) ==
    \E i \in 1..Len(lines) : startsWith(toUpperCase(trim(lines[i])), FROM_)

\* cleanResult that leaves the empty lines out of the joined text
cleanResultWithoutEmptyLines(cleanedLines, hasFrom) ==
    IF \E i \in 1..Len(cleanedLines) : ~cleanedLines[i].ok
    THEN cleanedLines[CHOOSE i \in 1..Len(cleanedLines) :
                         ~cleanedLines[i].ok /\ \A j \in 1..(i - 1) : cleanedLines[j].ok]
    ELSE IF ~hasFrom THEN Thrown("missingFrom")
    ELSE Returned(join(SelectSeq([i \in 1..Len(cleanedLines) |-> cleanedLines[i].text], LAMBDA t : t # <<>>), <<NL>>))

\* the first error thrown in the loop, the missing FROM error after it, or the joined lines
cleanResult(cleanedLines, hasFrom) ==
    IF \E i \in 1..Len(cleanedLines) : ~cleanedLines[i].ok
    THEN cleanedLines[CHOOSE i \in 1..Len(cleanedLines) :
                         ~cleanedLines[i].ok /\ \A j \in 1..(i - 1) : cleanedLines[j].ok]
    ELSE IF ~hasFrom THEN Thrown("missingFrom")
    ELSE Returned(join([i \in 1..Len(cleanedLines) |-> cleanedLines[i].text], <<NL>>))

cleanModelFile(rev, modelfile) ==
    cleanResult(cleanLines(rev, splitLines(modelfile)), hasFromInstruction(splitLines(modelfile)))

(***************************************************************************)
(* The ModelFile texts the model is checked on                             *)
(***************************************************************************)

\* the longest sequence of pool lines taken as a document
MaxLines == 2

\* the deepest nesting of quote layers around a SYSTEM text
MaxLayers == 2

\* lines a hand-edited or generated ModelFile holds
LinePool == {
    <<"F", "R", "O", "M", " ", "m">>,
    <<"F", "R", "O", "M", " ", "\"", "\"">>,
    <<" ", "f", "r", "o", "m", " ", " ", "n", " ">>,
    <<"P", "A", "R", "A", "M", "E", "T", "E", "R", " ", "t", "e", "m", "p", "e", "r", "a", "t", "u", "r", "e", " ", "5">>,
    <<"P", "A", "R", "A", "M", "E", "T", "E", "R", " ", "t", "e", "m", "p", "e", "r", "a", "t", "u", "r", "e", " ", "0", ".", "7">>,
    <<"P", "A", "R", "A", "M", "E", "T", "E", "R", " ", "t", "o", "p", "_", "k", " ", "3", ".", "7">>,
    <<"P", "A", "R", "A", "M", "E", "T", "E", "R", " ", "t", "e", "m", "p", "e", "r", "a", "t", "u", "r", "e">>,
    <<"S", "Y", "S", "T", "E", "M", " ", "h", "i">>,
    <<"S", "Y", "S", "T", "E", "M", " ", "\"", "\"", "\"", "h", "i", "\"", "\"", "\"">>,
    <<"S", "Y", "S", "T", "E", "M">>,
    <<"#", " ", "c">>,
    <<>>,
    <<"T", "E", "M", "P", "L", "A", "T", "E", " ", "x">> }

\* values written after a parameter name
ValuePool == {
    <<"0", ".", "7">>, <<"5">>, <<"0", ".", "0", "5">>, <<"3", ".", "7">>, <<"4", "0">>, <<"1", "0", "0", "0">>, <<"4", "0", "0", "0", "0">>, <<"0", ".", "1">>, <<"2", ".", "0">>, <<".", "5">>,
    <<"-", "1">>, <<"a", "b", "c">>, <<"1", ".", "5", "x">>, <<"1", "e", "1">>, <<"1", " ", "5">> }

stop == <<"s", "t", "o", "p">>

ParamNames == numericParams \cup {stop}

baseLine == <<"F", "R", "O", "M", " ", "m">>

hi == <<"h", "i">>

RECURSIVE SeqsUpTo(_, _)
SeqsUpTo(S, n) ==
    IF n = 0 THEN {<<>>}
    ELSE SeqsUpTo(S, n - 1) \cup {Append(q, x) : q \in {t \in SeqsUpTo(S, n - 1) : Len(t) = n - 1}, x \in S}

\* text wrapped in the given quote marks, the first of them outermost
RECURSIVE wrap(_, _)
wrap(layers, text) ==
    IF layers = <<>> THEN text ELSE Head(layers) \o wrap(Tail(layers), text) \o Head(layers)

QuoteMarks == {<<SQ>>, <<DQ>>, TQ}

PoolDocuments == {join(ls, <<NL>>) : ls \in SeqsUpTo(LinePool, MaxLines) \ {<<>>}}

ParameterDocuments ==
    {join(<<baseLine, PARAMETER_ \o n \o <<" ">> \o v>>, <<NL>>) : n \in ParamNames, v \in ValuePool}

SystemDocuments ==
    {join(<<baseLine, SYSTEM_ \o wrap(layers, hi)>>, <<NL>>) : layers \in SeqsUpTo(QuoteMarks, MaxLayers)}

\* texts that set the same parameter twice, with different values
RepeatedDocuments ==
    {join(<<baseLine, PARAMETER_ \o n \o <<" ">> \o p[1], PARAMETER_ \o n \o <<" ">> \o p[2]>>, <<NL>>) :
        n \in {temperature, repeat_penalty}, p \in {<<<<"0", ".", "7">>, <<"1", ".", "5">>>>, <<<<"1", ".", "5">>, <<"0", ".", "7">>>>}}

Documents == PoolDocuments \cup ParameterDocuments \cup SystemDocuments \cup RepeatedDocuments

(***************************************************************************)
(* State                                                                   *)
(***************************************************************************)

VARIABLES
    rev,          \* the revision of OllamaService that runs
    modelfile,    \* the ModelFile text handed to the service
    validation,   \* the result of validateModelFile(modelfile)
    cleaned,      \* the result of cleanModelFile(modelfile)
    recleaned,    \* the result of cleanModelFile on the cleaned text
    name,         \* the model name handed to createModel
    pc,           \* where the createModel call stands
    requests,     \* the HTTP requests sent to the daemon, in order
    failure,      \* the error createModel has thrown, "none" before
    stream,       \* the events the daemon has still to deliver on the response body
    partial,      \* the first part of the next event's line has arrived in the last chunk
    reported,     \* the messages passed to onProgress, in order
    modelConfig,        \* wizard: the structured configuration
    availableModels,    \* wizard: the names of the installed models
    validationErrors,   \* wizard: the errors shown
    isCreating,         \* wizard: a creation is running
    creationProgress,   \* wizard: the value of the progress bar
    creationStatus,     \* wizard: the status text
    toast,              \* wizard: the last notification, "none" before
    errorText,          \* the body of the last response of /api/create that was not ok
    lastError,          \* layout revision: what the last failed attempt left
    errorMessage,       \* the message of the Error thrown after a response that was not ok
    connectionStatus,   \* settings: 'connected', 'disconnected' or 'testing'
    connectionTimeout,  \* settings: settings.connectionTimeout, in units of time
    tests,              \* settings: the testConnection calls made, in order
    stored,             \* the collection under the key 'ollama-modelfiles' of localStorage
    saves,              \* the saveModelFile and duplicateModelFile calls, by caller
    now,                \* Date.now()
    currentStep,        \* wizard: the index of the step shown
    stepsState,         \* wizard: the steps with their completed and current marks
    flows               \* wizard: the createModel calls of the Create button, by click

\* the response body and what was reported of it
response == <<stream, partial, reported>>

\* the state of the CreateModel component
wizard == <<modelConfig, availableModels, validationErrors, isCreating, creationProgress, creationStatus, toast>>

\* the locals of the branch of createModel for a response that is not ok
rejection == <<errorText, lastError, errorMessage>>

\* the state of the Settings component
settings == <<connectionStatus, connectionTimeout, tests>>

\* localStorage and the ModelFileService calls
storage == <<stored, saves, now>>

\* the steps of the wizard and the clicks on its Create button
navigation == <<currentStep, stepsState, flows>>

\* what the validator, the normalizer and the wizard flow leave alone
elsewhere == <<rejection, settings, storage, navigation>>

vars == <<rev, modelfile, validation, cleaned, recleaned, name, pc, requests, failure, response, wizard, elsewhere>>

\* no response has been rejected
NotRejected ==
    /\ errorText = <<>>
    /\ lastError = <<>>
    /\ errorMessage = <<>>

\* useState initial values of Settings, no test made
SettingsMounted ==
    /\ connectionStatus = "disconnected"
    /\ tests = <<>>

\* the most ModelFileService calls made
MaxSaves == 2

\* a caller that has no call running
NoCall == [phase |-> "idle", name |-> "none", modelFiles |-> <<>>, saved |-> <<>>]

\* no ModelFileService call has been made
NoSaves ==
    /\ saves = [c \in 1..MaxSaves |-> NoCall]
    /\ now = 0

\* the most clicks on the Create button
MaxFlows == 2

\* the steps basic, parameters, system and review as declared
steps ==
    << [completed |-> FALSE, current |-> TRUE],
       [completed |-> FALSE, current |-> FALSE],
       [completed |-> FALSE, current |-> FALSE],
       [completed |-> FALSE, current |-> FALSE] >>

\* a click that has not been made
NoFlow == [phase |-> "idle", config |-> <<>>]

\* useState initial values of the steps, the Create button not clicked
FirstStep ==
    /\ currentStep = 0
    /\ stepsState = steps
    /\ flows = [f \in 1..MaxFlows |-> NoFlow]

\* the components the model does not start are as constructed
Quiet ==
    /\ FirstStep
    /\ NotRejected
    /\ SettingsMounted
    /\ connectionTimeout = Num(2, 0)
    /\ NoSaves
    /\ stored = <<>>

\* the state of a createModel call
call == <<name, pc, requests, failure>>

NotValidated == [done |-> FALSE, isValid |-> FALSE, errors |-> <<>>]

NotCleaned == [done |-> FALSE, ok |-> FALSE, text |-> <<>>, error |-> "none"]

Validated(v) == [done |-> TRUE, isValid |-> v.isValid, errors |-> v.errors]

\* useState initial value of modelConfig
initialConfig ==
    [ name |-> <<>>, baseModel |-> <<"l", "l", "a", "m", "a", "3", ".", "2">>, systemPrompt |-> <<>>,
      temperature |-> <<"0", ".", "8">>, maxTokens |-> <<"2", "0", "4", "8">>, topP |-> <<"0", ".", "9">>, topK |-> <<"4", "0">>,
      repeatPenalty |-> <<"1", ".", "1">> ]

\* no response body is read and the component is as mounted
Unmounted ==
    /\ stream = <<>>
    /\ partial = FALSE
    /\ reported = <<>>
    /\ modelConfig = initialConfig
    /\ availableModels = <<>>
    /\ validationErrors = <<>>
    /\ isCreating = FALSE
    /\ creationProgress = 0
    /\ creationStatus = <<>>
    /\ toast = "none"

Cleaned(c) == [done |-> TRUE, ok |-> c.ok, text |-> c.text, error |-> c.error]

(***************************************************************************)
(* The validator and the normalizer applied to a text                      *)
(***************************************************************************)

NormalizerInit ==
    /\ rev \in Revisions
    /\ Quiet
    /\ modelfile \in Documents
    /\ validation = NotValidated
    /\ cleaned = NotCleaned
    /\ recleaned = NotCleaned
    /\ name = <<>>
    /\ pc = "idle"
    /\ requests = <<>>
    /\ failure = "none"
    /\ Unmounted

Validate ==
    /\ ~validation.done
    /\ validation' = Validated(validateModelFile(modelfile))
    /\ UNCHANGED <<elsewhere, rev, modelfile, cleaned, recleaned, call, response, wizard>>

Clean ==
    /\ ~cleaned.done
    /\ cleaned' = Cleaned(cleanModelFile(rev, modelfile))
    /\ UNCHANGED <<elsewhere, rev, modelfile, validation, recleaned, call, response, wizard>>

CleanAgain ==
    /\ cleaned.done /\ cleaned.ok
    /\ ~recleaned.done
    /\ recleaned' = Cleaned(cleanModelFile(rev, cleaned.text))
    /\ UNCHANGED <<elsewhere, rev, modelfile, validation, cleaned, call, response, wizard>>

NormalizerNext == Validate \/ Clean \/ CleanAgain

NormalizerSpec == NormalizerInit /\ [][NormalizerNext]_vars

(***************************************************************************)
(* OllamaService.createModel: what it sends to the daemon                  *)
(***************************************************************************)

TEMPLATE_ == <<"T", "E", "M", "P", "L", "A", "T", "E", " ">>

llama2 == <<"l", "l", "a", "m", "a", "2">>

\* cleanName without the final toLowerCase()
cleanNameOfKeepingCase(n) ==
    SelectSeq(trim(n), LAMBDA c : IsLower(c) \/ IsUpper(c) \/ IsDigit(c) \/ c \in {"_", "-"})

\* name.trim().replace(/[^a-zA-Z0-9_-]/g, '').toLowerCase()
cleanNameOf(n) ==
    toLowerCase(SelectSeq(trim(n), LAMBDA c : IsLower(c) \/ IsUpper(c) \/ IsDigit(c) \/ c \in {"_", "-"}))

\* cleanedModelfile.match(/FROM\s+([^\s\n]+)/i) finds a match
fromMatch(text) ==
    \E i \in 1..Len(text) :
        /\ startsWith(toUpperCase(substring(text, i - 1)), <<"F", "R", "O", "M">>)
        /\ i + 4 <= Len(text)
        /\ text[i + 4] \in WhiteSpace
        /\ trimStart(substring(text, i + 3)) # <<>>

\* Math.round
round(x) ==
    IF x.nan \/ x.e >= 0 THEN x
    ELSE Num((2 * x.m + Pow10(-x.e)) \div (2 * Pow10(-x.e)), 0)

\* the lines parseModelFileForOldAPI loops over
oldApiLines(text) ==
    SelectSeq(trimAll(splitLines(text)), LAMBDA l : l # <<>> /\ ~startsWith(l, <<"#">>))

\* baseModel after the loop: the name on the last FROM line, llama2 without one
oldApiBaseModel(fromLines) ==
    IF fromLines = <<>> THEN llama2 ELSE splitSpaces(fromLines[Len(fromLines)])[2]

NumberValue(x) == [number |-> TRUE, text |-> toString(x)]

StringValue(t) == [number |-> FALSE, text |-> t]

\* the value stored for a parameter, given its text and parseFloat of that text
oldApiValue(paramName, paramValue, numValue) ==
    IF toLowerCase(paramName) \notin (numericParams \cup {<<"s", "e", "e", "d">>}) \/ isNaN(numValue)
    THEN StringValue(paramValue)
    ELSE IF toLowerCase(paramName) \in {top_k, num_ctx, num_predict, <<"s", "e", "e", "d">>}
    THEN NumberValue(round(numValue))
    ELSE NumberValue(numValue)

\* parameters[paramName] = value on an object that keeps the order of first assignment
setParameter(parameters, paramName, value) ==
    IF \E i \in 1..Len(parameters) : parameters[i].name = paramName
    THEN [i \in 1..Len(parameters) |->
            IF parameters[i].name = paramName THEN [name |-> paramName, value |-> value]
            ELSE parameters[i]]
    ELSE Append(parameters, [name |-> paramName, value |-> value])

\* the PARAMETER branch of the loop on a line split into parts
oldApiSetParts(parameters, parts) ==
    IF Len(parts) >= 3
    THEN setParameter(parameters, parts[2],
                      oldApiValue(parts[2], join(SubSeq(parts, 3, Len(parts)), <<" ">>),
                                  parseFloat(join(SubSeq(parts, 3, Len(parts)), <<" ">>))))
    ELSE parameters

RECURSIVE oldApiParameters(_)
oldApiParameters(parameterLines) ==
    IF parameterLines = <<>> THEN <<>>
    ELSE oldApiSetParts(oldApiParameters(SubSeq(parameterLines, 1, Len(parameterLines) - 1)),
                        splitSpaces(parameterLines[Len(parameterLines)]))

\* the quotes removed from the content of a SYSTEM or TEMPLATE line
unquote(content) ==
    IF quotedBy(content, TQ) THEN slice(content, 3)
    ELSE IF quotedBy(content, <<DQ>>) THEN slice(content, 1)
    ELSE content

\* system / template after the loop: the content of the last such line
oldApiText(textLines, keywordLength) ==
    IF textLines = <<>> THEN <<>>
    ELSE unquote(trim(substring(textLines[Len(textLines)], keywordLength)))

\* lines of the else-if chain that reach the SYSTEM branch, and the TEMPLATE branch
oldApiSystemLines(lines) ==
    SelectSeq(lines, LAMBDA l : startsWith(toUpperCase(l), SYSTEM_))

oldApiTemplateLines(lines) ==
    SelectSeq(lines, LAMBDA l : startsWith(toUpperCase(l), TEMPLATE_))

parseModelFileForOldAPI(text) ==
    [ baseModel  |-> oldApiBaseModel(linesOf(text, FROM_)),
      parameters |-> oldApiParameters(linesOf(text, PARAMETER_)),
      system     |-> oldApiText(oldApiSystemLines(oldApiLines(text)), 7),
      template   |-> oldApiText(oldApiTemplateLines(oldApiLines(text)), 9) ]

NoBody ==
    [ key |-> "none", name |-> <<>>, kind |-> "none", modelfile |-> <<>>,
      from |-> <<>>, parameters |-> <<>>, system |-> <<>>, template |-> <<>> ]

\* { <key>: cleanName, modelfile: cleanedModelfile }
TextBody(key, cleanName, cleanedModelfile) ==
    [ key |-> key, name |-> cleanName, kind |-> "modelfile", modelfile |-> cleanedModelfile,
      from |-> <<>>, parameters |-> <<>>, system |-> <<>>, template |-> <<>> ]

\* { <key>: cleanName, from: parsed.baseModel, ...parsed.structure }
StructuredBody(key, cleanName, parsed) ==
    [ key |-> key, name |-> cleanName, kind |-> "structure", modelfile |-> <<>>,
      from |-> parsed.baseModel, parameters |-> parsed.parameters,
      system |-> parsed.system, template |-> parsed.template ]

Get(path) == [method |-> "GET", path |-> path, body |-> NoBody]

Post(path, body) == [method |-> "POST", path |-> path, body |-> body]

\* the payloads the layout revision tries in turn
formatOptions(cleanName, cleanedModelfile) ==
    << StructuredBody("name", cleanName, parseModelFileForOldAPI(cleanedModelfile)),
       StructuredBody("model", cleanName, parseModelFileForOldAPI(cleanedModelfile)),
       TextBody("name", cleanName, cleanedModelfile),
       TextBody("model", cleanName, cleanedModelfile) >>

\* the POST /api/create requests sent so far
creates(sent) == SelectSeq(sent, LAMBDA r : r.method = "POST")

\* the payload of the next POST /api/create
nextPayload(r, sent, cleanName, cleanedModelfile) ==
    IF r = "layout" THEN formatOptions(cleanName, cleanedModelfile)[Len(creates(sent)) + 1]
    ELSE TextBody("name", cleanName, cleanedModelfile)

\* the payloads one call may send
attempts(r) == IF r = "layout" THEN 4 ELSE 1

(***************************************************************************)
(* A createModel call                                                      *)
(***************************************************************************)

\* model names typed into the wizard
Names == {<<"m", "1">>, <<"M", "y", " ", "M", "o", "d", "e", "l", "!">>, <<" ", "!", "?", " ">>}

CreateInit ==
    /\ rev \in Revisions
    /\ Quiet
    /\ modelfile \in Documents
    /\ name \in Names
    /\ validation = NotValidated
    /\ cleaned = NotCleaned
    /\ recleaned = NotCleaned
    /\ pc = "called"
    /\ requests = <<>>
    /\ failure = "none"
    /\ Unmounted

\* layout revision: createModel first awaits getVersion
GetVersion ==
    /\ pc = "called" /\ rev = "layout"
    /\ requests' = Append(requests, Get("/version"))
    /\ pc' = "version"
    /\ UNCHANGED <<elsewhere, rev, modelfile, validation, cleaned, recleaned, name, failure, response, wizard>>

\* whatever getVersion returns or throws, createModel continues
VersionReplied ==
    /\ pc = "version"
    /\ \E ok \in BOOLEAN : pc' = "checked"
    /\ UNCHANGED <<elsewhere, rev, modelfile, validation, cleaned, recleaned, name, requests, failure, response, wizard>>

Fail(message) ==
    /\ pc' = "failed"
    /\ failure' = message
    /\ UNCHANGED requests

\* what follows cleanModelFile: the lookup of the base model (layout) or the POST
Submit(c) ==
    IF ~c.ok THEN Fail(c.error)
    ELSE IF rev = "layout" /\ fromMatch(c.text)
    THEN /\ requests' = Append(requests, Get("/tags"))
         /\ pc' = "tags"
         /\ UNCHANGED failure
    ELSE /\ requests' = Append(requests, Post("/create", nextPayload(rev, requests, cleanNameOf(name), c.text)))
         /\ pc' = "creating"
         /\ UNCHANGED failure

\* the name check, validateModelFile and cleanModelFile, up to the next await
Prepare ==
    /\ \/ pc = "called" /\ rev = "services"
       \/ pc = "checked"
    /\ IF cleanNameOf(name) = <<>>
       THEN Fail("invalidName") /\ UNCHANGED <<validation, cleaned>>
       ELSE /\ validation' = Validated(validateModelFile(modelfile))
            /\ IF ~validation'.isValid
               THEN Fail("validationFailed") /\ UNCHANGED cleaned
               ELSE /\ cleaned' = Cleaned(cleanModelFile(rev, modelfile))
                    /\ Submit(cleaned')
    /\ UNCHANGED <<elsewhere, rev, modelfile, recleaned, name, response, wizard>>

\* checkModelExists returns or throws: the outcome is logged and the first payload is sent
TagsReplied ==
    /\ pc = "tags"
    /\ \E outcome \in {"installed", "absent", "unreachable"} :
           requests' = Append(requests, Post("/create", nextPayload(rev, requests, cleanNameOf(name), cleaned.text)))
    /\ pc' = "creating"
    /\ UNCHANGED <<elsewhere, rev, modelfile, validation, cleaned, recleaned, name, failure, response, wizard>>

\* response.ok: the body is read as a stream
CreateAccepted ==
    /\ pc = "creating"
    /\ pc' = "streaming"
    /\ errorText' = <<>>
    /\ lastError' = <<>>
    /\ UNCHANGED <<errorMessage, settings, storage, navigation>>
    /\ UNCHANGED <<rev, modelfile, validation, cleaned, recleaned, name, requests, failure, response, wizard>>

\* bodies the daemon, or a proxy before it, sends with an error status
ErrorBodies == {
    <<"{", "\"", "e", "r", "r", "o", "r", "\"", ":", "\"", "i", "n", "v", "a", "l", "i", "d", " ", "m", "o", "d", "e", "l", " ", "n", "a", "m", "e", "\"", "}">>,
    <<"{", "\"", "e", "r", "r", "o", "r", "\"", ":", "\"", "m", "o", "d", "e", "l", " ", "n", "o", "t", " ", "f", "o", "u", "n", "d", "\"", "}">>,
    <<"{", "}">>,
    <<"n", "u", "l", "l">>,
    <<"B", "a", "d", " ", "G", "a", "t", "e", "w", "a", "y">>,
    <<>> }

\* response.status and response.statusText
StatusLines == {<<"4", "0", "0", " ", "B", "a", "d", " ", "R", "e", "q", "u", "e", "s", "t">>, <<"5", "0", "0", " ", "I", "n", "t", "e", "r", "n", "a", "l", " ", "S", "e", "r", "v", "e", "r", " ", "E", "r", "r", "o", "r">>}

\* JSON.parse on the bodies of the pool: null, an object without members, an object
\* with the one member "error" holding a string; anything else is a SyntaxError
JsonParse(text) ==
    IF text = <<"n", "u", "l", "l">> THEN [ok |-> TRUE, kind |-> "null", error |-> <<>>]
    ELSE IF text = <<"{", "}">> THEN [ok |-> TRUE, kind |-> "object", error |-> <<>>]
    ELSE IF /\ startsWith(text, <<"{", "\"", "e", "r", "r", "o", "r", "\"", ":", "\"">>) /\ endsWith(text, <<"\"", "}">>)
            /\ Len(text) >= Len(<<"{", "\"", "e", "r", "r", "o", "r", "\"", ":", "\"", "\"", "}">>)
            /\ \A i \in (Len(<<"{", "\"", "e", "r", "r", "o", "r", "\"", ":", "\"">>) + 1)..(Len(text) - 2) : text[i] \notin {DQ, "\\"}
    THEN [ok |-> TRUE, kind |-> "object", error |-> SubSeq(text, Len(<<"{", "\"", "e", "r", "r", "o", "r", "\"", ":", "\"">>) + 1, Len(text) - 2)]
    ELSE [ok |-> FALSE, kind |-> "none", error |-> <<>>]

\* services revision: errorMessage after the try / catch around JSON.parse(errorText);
\* reading .error of null throws inside the try as a SyntaxError does
serviceErrorMessage(text, errorData, statusLine) ==
    IF errorData.ok /\ errorData.kind = "object"
    THEN (IF errorData.error # <<>> THEN errorData.error ELSE <<"F", "a", "i", "l", "e", "d", " ", "t", "o", " ", "c", "r", "e", "a", "t", "e", " ", "m", "o", "d", "e", "l", ":", " ">> \o statusLine)
    ELSE IF text # <<>> THEN text
    ELSE <<"F", "a", "i", "l", "e", "d", " ", "t", "o", " ", "c", "r", "e", "a", "t", "e", " ", "m", "o", "d", "e", "l", ":", " ">> \o statusLine

\* layout revision: errorMessage after the try / catch around JSON.parse(lastError)
layoutErrorMessage(text, errorData) ==
    IF text = <<>> THEN <<"F", "a", "i", "l", "e", "d", " ", "t", "o", " ", "c", "r", "e", "a", "t", "e", " ", "m", "o", "d", "e", "l", " ", "w", "i", "t", "h", " ", "a", "n", "y", " ", "s", "u", "p", "p", "o", "r", "t", "e", "d", " ", "A", "P", "I", " ", "f", "o", "r", "m", "a", "t">>
    ELSE IF errorData.ok /\ errorData.kind = "object" /\ errorData.error # <<>> THEN errorData.error
    ELSE text

\* /FROM\s+([^\s\n]+)/i matches at index i
fromAt(text, i) ==
    /\ startsWith(toUpperCase(substring(text, i - 1)), <<"F", "R", "O", "M">>)
    /\ i + 4 <= Len(text)
    /\ text[i + 4] \in WhiteSpace
    /\ trimStart(substring(text, i + 3)) # <<>>

\* the characters of s before its first white space
firstToken(s) ==
    SubSeq(s, 1, (CHOOSE k \in 1..(Len(s) + 1) :
                      /\ k = Len(s) + 1 \/ s[k] \in WhiteSpace
                      /\ \A j \in 1..(k - 1) : s[j] \notin WhiteSpace) - 1)

\* fromMatch ? fromMatch[1] : 'model-name'
fromNameOf(text) ==
    IF ~fromMatch(text) THEN <<"m", "o", "d", "e", "l", "-", "n", "a", "m", "e">>
    ELSE firstToken(trimStart(substring(text,
             (CHOOSE i \in 1..Len(text) : fromAt(text, i) /\ \A j \in 1..(i - 1) : ~fromAt(text, j)) + 3)))

\* layout revision: the helpful messages for common issues (the first one, which also
\* saves the text for the command line, is given by its first sentence)
translated(message, cleanedModelfile) ==
    IF includes(message, <<"n", "e", "i", "t", "h", "e", "r", " ", "'", "f", "r", "o", "m", "'", " ", "o", "r", " ", "'", "f", "i", "l", "e", "s", "'", " ", "w", "a", "s", " ", "s", "p", "e", "c", "i", "f", "i", "e", "d">>)
    THEN <<"A", "P", "I", " ", "F", "o", "r", "m", "a", "t", " ", "E", "r", "r", "o", "r", ":", " ", "Y", "o", "u", "r", " ", "O", "l", "l", "a", "m", "a", " ", "v", "e", "r", "s", "i", "o", "n", " ", "(", "0", ".", "9", ".", "3", ")", " ", "u", "s", "e", "s", " ", "a", "n", " ", "u", "n", "s", "u", "p", "p", "o", "r", "t", "e", "d", " ", "A", "P", "I", " ", "f", "o", "r", "m", "a", "t", ".">>
    ELSE IF includes(message, <<"m", "o", "d", "e", "l", " ", "n", "o", "t", " ", "f", "o", "u", "n", "d">>) \/ includes(message, <<"p", "u", "l", "l", " ", "m", "o", "d", "e", "l">>)
    THEN <<"B", "a", "s", "e", " ", "m", "o", "d", "e", "l", " ", "n", "o", "t", " ", "f", "o", "u", "n", "d", ".", " ", "P", "l", "e", "a", "s", "e", " ", "d", "o", "w", "n", "l", "o", "a", "d", " ", "t", "h", "e", " ", "b", "a", "s", "e", " ", "m", "o", "d", "e", "l", " ", "f", "i", "r", "s", "t", " ", "b", "y", " ", "r", "u", "n", "n", "i", "n", "g", ":", " ", "o", "l", "l", "a", "m", "a", " ", "p", "u", "l", "l", " ">>
         \o fromNameOf(cleanedModelfile)
    ELSE IF includes(message, <<"i", "n", "v", "a", "l", "i", "d", " ", "m", "o", "d", "e", "l", "f", "i", "l", "e">>)
    THEN <<"M", "o", "d", "e", "l", "F", "i", "l", "e", " ", "f", "o", "r", "m", "a", "t", " ", "e", "r", "r", "o", "r", ":", " ">> \o message \o <<".", " ", "P", "l", "e", "a", "s", "e", " ", "c", "h", "e", "c", "k", " ", "y", "o", "u", "r", " ", "M", "o", "d", "e", "l", "F", "i", "l", "e", " ", "s", "y", "n", "t", "a", "x", ".">>
    ELSE message

\* services revision: the branch for a response that is not ok
Rejected(body, statusLine) ==
    /\ errorText' = body
    /\ errorMessage' = serviceErrorMessage(body, JsonParse(body), statusLine)
    /\ UNCHANGED lastError

\* layout revision: the last attempt has failed and left lastError; the error is thrown
\* (the earlier attempts leave a lastError too, which the next one overwrites)
AttemptsFailed(body, left) ==
    /\ errorText' = body
    /\ lastError' = left
    /\ errorMessage' = translated(layoutErrorMessage(left, JsonParse(left)), cleaned.text)

\* the daemon answers with an error status, or fetch itself throws
CreateRejected ==
    /\ pc = "creating"
    /\ IF rev = "layout" /\ Len(creates(requests)) < attempts(rev)
       THEN /\ requests' = Append(requests, Post("/create", nextPayload(rev, requests, cleanNameOf(name), cleaned.text)))
            /\ UNCHANGED <<pc, failure, rejection>>
       ELSE \E cause \in {"status", "network"} :
                /\ Fail(cause)
                /\ IF cause = "network"
                   THEN IF rev = "layout" THEN AttemptsFailed(<<>>, <<"F", "a", "i", "l", "e", "d", " ", "t", "o", " ", "f", "e", "t", "c", "h">>) ELSE UNCHANGED rejection
                   ELSE \E body \in ErrorBodies :
                            IF rev = "layout" THEN AttemptsFailed(body, body)
                            ELSE \E statusLine \in StatusLines : Rejected(body, statusLine)
    /\ UNCHANGED <<settings, storage, navigation>>
    /\ UNCHANGED <<rev, modelfile, validation, cleaned, recleaned, name, response, wizard>>

CreateNext ==
    \/ GetVersion
    \/ VersionReplied
    \/ Prepare
    \/ TagsReplied
    \/ CreateAccepted
    \/ CreateRejected

CreateSpec == CreateInit /\ [][CreateNext]_vars

(***************************************************************************)
(* CreateModel.tsx: the document builder and validateConfiguration         *)
(***************************************************************************)

NumericChars == {DigitChars[i] : i \in 1..10} \cup {"."}

\* the tail of sanitizeNumericValue, parsed being parseFloat(cleaned)
sanitizeParsed(parsed, min, max, defaultValue) ==
    IF isNaN(parsed) THEN defaultValue
    ELSE IF lessThan(parsed, min) THEN toString(min)
    ELSE IF lessThan(max, parsed) THEN toString(max)
    ELSE toString(parsed)

sanitizeNumericValue(value, min, max, defaultValue) ==
    sanitizeParsed(parseFloat(keepChars(value, NumericChars)), min, max, defaultValue)

\* text || fallback
orElse(text, fallback) == IF text # <<>> THEN text ELSE fallback

\* generateModelFile with the PARAMETER lines in the order of the parameter table
generateModelFileReordered(config) ==
    join(<< FROM_ \o orElse(trim(config.baseModel), <<"l", "l", "a", "m", "a", "3", ".", "2">>),
            <<>>,
            <<"#", " ", "M", "o", "d", "e", "l", " ", "p", "a", "r", "a", "m", "e", "t", "e", "r", "s">>,
            PARAMETER_ \o temperature \o <<" ">>
                \o sanitizeNumericValue(config.temperature, Num(1, -1), Num(20, -1), <<"0", ".", "8">>),
            PARAMETER_ \o top_p \o <<" ">>
                \o sanitizeNumericValue(config.topP, Num(1, -1), Num(10, -1), <<"0", ".", "9">>),
            PARAMETER_ \o top_k \o <<" ">>
                \o sanitizeNumericValue(config.topK, Num(1, 0), Num(100, 0), <<"4", "0">>),
            PARAMETER_ \o repeat_penalty \o <<" ">>
                \o sanitizeNumericValue(config.repeatPenalty, Num(5, -1), Num(20, -1), <<"1", ".", "1">>),
            PARAMETER_ \o num_ctx \o <<" ">>
                \o sanitizeNumericValue(config.maxTokens, Num(512, 0), Num(32768, 0), <<"2", "0", "4", "8">>),
            <<>>,
            <<"#", " ", "S", "y", "s", "t", "e", "m", " ", "m", "e", "s", "s", "a", "g", "e">>,
            SYSTEM_ \o TQ \o orElse(trim(config.systemPrompt), <<"Y", "o", "u", " ", "a", "r", "e", " ", "a", " ", "h", "e", "l", "p", "f", "u", "l", " ", "A", "I", " ", "a", "s", "s", "i", "s", "t", "a", "n", "t", ".">>) \o TQ >>,
         <<NL>>)

generateModelFile(config) ==
    join(<< FROM_ \o orElse(trim(config.baseModel), <<"l", "l", "a", "m", "a", "3", ".", "2">>),
            <<>>,
            <<"#", " ", "M", "o", "d", "e", "l", " ", "p", "a", "r", "a", "m", "e", "t", "e", "r", "s">>,
            PARAMETER_ \o temperature \o <<" ">>
                \o sanitizeNumericValue(config.temperature, Num(1, -1), Num(20, -1), <<"0", ".", "8">>),
            PARAMETER_ \o num_ctx \o <<" ">>
                \o sanitizeNumericValue(config.maxTokens, Num(512, 0), Num(32768, 0), <<"2", "0", "4", "8">>),
            PARAMETER_ \o top_p \o <<" ">>
                \o sanitizeNumericValue(config.topP, Num(1, -1), Num(10, -1), <<"0", ".", "9">>),
            PARAMETER_ \o top_k \o <<" ">>
                \o sanitizeNumericValue(config.topK, Num(1, 0), Num(100, 0), <<"4", "0">>),
            PARAMETER_ \o repeat_penalty \o <<" ">>
                \o sanitizeNumericValue(config.repeatPenalty, Num(5, -1), Num(20, -1), <<"1", ".", "1">>),
            <<>>,
            <<"#", " ", "S", "y", "s", "t", "e", "m", " ", "m", "e", "s", "s", "a", "g", "e">>,
            SYSTEM_ \o TQ \o orElse(trim(config.systemPrompt), <<"Y", "o", "u", " ", "a", "r", "e", " ", "a", " ", "h", "e", "l", "p", "f", "u", "l", " ", "A", "I", " ", "a", "s", "s", "i", "s", "t", "a", "n", "t", ".">>) \o TQ >>,
         <<NL>>)

\* parseInt of a text that starts with its digits
parseInt(s) == IF digitPrefix(s) = <<>> THEN NaN ELSE Num(digitsToNat(digitPrefix(s)), 0)

\* validateConfiguration: the checks of the model name and of the base model
nameErrors(config) ==
    (IF trim(config.name) = <<>> THEN <<Err("nameRequired", <<>>)>>
     ELSE IF \E i \in 1..Len(trim(config.name)) :
                ~(IsLower(trim(config.name)[i]) \/ IsUpper(trim(config.name)[i])
                  \/ IsDigit(trim(config.name)[i]) \/ trim(config.name)[i] \in {"_", "-"})
     THEN <<Err("nameCharacters", <<>>)>>
     ELSE <<>>)
    \o (IF trim(config.baseModel) = <<>> THEN <<Err("baseModelRequired", <<>>)>> ELSE <<>>)

\* validateConfiguration: models.some(model => model.name === baseModel) fails
notInstalled(models, config) ==
    IF \E i \in 1..Len(models) : models[i] = config.baseModel THEN <<>>
    ELSE <<Err("baseModelNotInstalled", config.baseModel)>>

\* isNaN(x) || x < min || x > max gives the error of that field
fieldError(x, min, max, rule) ==
    IF isNaN(x) \/ lessThan(x, min) \/ lessThan(max, x) THEN <<Err(rule, <<>>)>> ELSE <<>>

\* validateConfiguration: the checks of the five numeric fields
parameterErrors(config) ==
    fieldError(parseFloat(keepChars(config.temperature, NumericChars)), Num(1, -1), Num(20, -1), "temperature")
    \o fieldError(parseInt(keepChars(config.maxTokens, NumericChars \ {"."})), Num(512, 0), Num(32768, 0), "contextLength")
    \o fieldError(parseFloat(keepChars(config.topP, NumericChars)), Num(1, -1), Num(10, -1), "topP")
    \o fieldError(parseInt(keepChars(config.topK, NumericChars \ {"."})), Num(1, 0), Num(100, 0), "topK")
    \o fieldError(parseFloat(keepChars(config.repeatPenalty, NumericChars)), Num(5, -1), Num(20, -1), "repeatPenalty")

\* validateConfiguration: errors, given what the lookup of the base model added
validateConfiguration(config, lookupErrors) ==
    nameErrors(config) \o lookupErrors \o parameterErrors(config)
    \o validateModelFile(generateModelFile(config)).errors

\* disabled={isCreating || !modelConfig.name.trim() || validationErrors.length > 0} is false
CreateEnabled == ~isCreating /\ trim(modelConfig.name) # <<>> /\ validationErrors = <<>>

(***************************************************************************)
(* The response body of POST /api/create and the onProgress callback       *)
(***************************************************************************)

\* one JSON line of the body: status, digest with completed / total, error, done
Event(status, completed, total, error, done) ==
    [status |-> status, completed |-> completed, total |-> total, error |-> error, done |-> done]
\* status.match(/(\d+)%/): the start of the first run of digits that ends at a %, 0 without
percentMatch(s) ==
    IF \E i \in 1..Len(s) : IsDigit(s[i]) /\ startsWith(substring(s, i - 1 + Len(digitPrefix(substring(s, i - 1)))), <<"%">>)
    THEN CHOOSE i \in 1..Len(s) :
           /\ IsDigit(s[i]) /\ startsWith(substring(s, i - 1 + Len(digitPrefix(substring(s, i - 1)))), <<"%">>)
           /\ \A j \in 1..(i - 1) :
                ~(IsDigit(s[j]) /\ startsWith(substring(s, j - 1 + Len(digitPrefix(substring(s, j - 1)))), <<"%">>))
    ELSE 0

\* the progress set by the callback for a status in lower case, progress when none is set
progressFor(status, statusLower, progress) ==
    IF includes(statusLower, <<"p", "u", "l", "l", "i", "n", "g">>) \/ includes(statusLower, <<"d", "o", "w", "n", "l", "o", "a", "d", "i", "n", "g">>) THEN 20
    ELSE IF includes(statusLower, <<"v", "e", "r", "i", "f", "y", "i", "n", "g">>) \/ includes(statusLower, <<"v", "e", "r", "i", "f", "y">>) THEN 40
    ELSE IF includes(statusLower, <<"w", "r", "i", "t", "i", "n", "g">>) \/ includes(statusLower, <<"c", "r", "e", "a", "t", "i", "n", "g">>) THEN 60
    ELSE IF includes(statusLower, <<"u", "s", "i", "n", "g">>) \/ includes(statusLower, <<"f", "i", "n", "a", "l", "i", "z", "i", "n", "g">>) THEN 80
    ELSE IF includes(statusLower, <<"s", "u", "c", "c", "e", "s", "s">>) \/ includes(statusLower, <<"c", "o", "m", "p", "l", "e", "t", "e">>) THEN 100
    ELSE IF includes(statusLower, <<"%">>) /\ percentMatch(status) # 0
    THEN Min(parseInt(substring(status, percentMatch(status) - 1)).m, 95)
    ELSE progress

\* what reading the body has done so far: messages reported, wizard display, error thrown, loop left
Reading(messages, progress, status, thrown, stopped) ==
    [messages |-> messages, progress |-> progress, status |-> status, thrown |-> thrown, stopped |-> stopped]

\* onProgress(statusMessage): the callback of the wizard
onProgress(r, statusMessage) ==
    Reading(Append(r.messages, statusMessage),
            progressFor(orElse(statusMessage, <<"P", "r", "o", "c", "e", "s", "s", "i", "n", "g", ".", ".", ".">>),
                        toLowerCase(orElse(statusMessage, <<"P", "r", "o", "c", "e", "s", "s", "i", "n", "g", ".", ".", ".">>)), r.progress),
            orElse(statusMessage, <<"P", "r", "o", "c", "e", "s", "s", "i", "n", "g", ".", ".", ".">>), r.thrown, r.stopped)

\* Math.round((completed / total) * 100)
percentOf(event) == (200 * event.completed + event.total) \div (2 * event.total)

\* lines 117-127: the status message and the message with the percentage
reportStatus(r, event) == IF event.status # <<>> THEN onProgress(r, event.status) ELSE r

reportPercent(r, event) ==
    IF event.total # 0 /\ event.completed # 0
    THEN onProgress(r, orElse(event.status, <<"P", "r", "o", "c", "e", "s", "s", "i", "n", "g">>) \o <<":", " ">> \o natToDigits(percentOf(event)) \o <<"%">>)
    ELSE r

\* lines 129-140: the error thrown, or the success message and the break
finishLine(r, event) ==
    IF event.error # <<>> THEN [r EXCEPT !.thrown = "streamError"]
    ELSE IF event.status = <<"s", "u", "c", "c", "e", "s", "s">> \/ (event.done /\ event.status # <<>>)
    THEN [onProgress(r, <<"M", "o", "d", "e", "l", " ", "c", "r", "e", "a", "t", "e", "d", " ", "s", "u", "c", "c", "e", "s", "s", "f", "u", "l", "l", "y", "!">>) EXCEPT !.stopped = TRUE]
    ELSE r

\* the body of the loop over the lines of a chunk, for a line that parses
processLine(r, event) == finishLine(reportPercent(reportStatus(r, event), event), event)

\* the loop over the lines of one chunk that parse
RECURSIVE processLines(_, _)
processLines(r, events) ==
    IF events = <<>> \/ r.stopped \/ r.thrown # "none" THEN r
    ELSE processLines(processLine(r, Head(events)), Tail(events))

(***************************************************************************)
(* The creation flow of the wizard                                         *)
(***************************************************************************)

\* the most events the daemon streams in one response body
MaxEvents == 2

\* lines the daemon writes on the body of POST /api/create
EventPool == {
    Event(<<"w", "r", "i", "t", "i", "n", "g", " ", "m", "a", "n", "i", "f", "e", "s", "t">>, 0, 0, <<>>, FALSE),
    Event(<<"u", "s", "i", "n", "g", " ", "e", "x", "i", "s", "t", "i", "n", "g", " ", "l", "a", "y", "e", "r">>, 0, 0, <<>>, FALSE),
    Event(<<"t", "r", "a", "n", "s", "f", "e", "r", "r", "i", "n", "g">>, 1, 2, <<>>, FALSE),
    Event(<<"p", "u", "l", "l", "i", "n", "g", " ", "l", "a", "y", "e", "r">>, 1, 2, <<>>, FALSE),
    Event(<<"f", "i", "n", "i", "s", "h", "e", "d">>, 0, 0, <<>>, TRUE),
    Event(<<"s", "u", "c", "c", "e", "s", "s">>, 0, 0, <<>>, FALSE),
    Event(<<>>, 0, 0, <<"b", "o", "o", "m">>, FALSE) }

Scripts == SeqsUpTo(EventPool, MaxEvents)

\* configurations typed into the wizard
Configs == {
    initialConfig,
    [initialConfig EXCEPT !.name = <<"m", "1">>],
    [initialConfig EXCEPT !.name = <<"m", "1">>, !.temperature = <<"5">>],
    [initialConfig EXCEPT !.name = <<"m", "1">>, !.systemPrompt = <<"a", "\n", "b">>] }

Init ==
    /\ rev \in Revisions
    /\ Quiet
    /\ modelConfig = initialConfig
    /\ availableModels \in {<<>>, <<<<"l", "l", "a", "m", "a", "3", ".", "2">>>>}
    /\ stream \in Scripts
    /\ partial = FALSE
    /\ reported = <<>>
    /\ validationErrors = <<>>
    /\ isCreating = FALSE
    /\ creationProgress = 0
    /\ creationStatus = <<>>
    /\ toast = "none"
    /\ modelfile = <<>>
    /\ name = <<>>
    /\ validation = NotValidated
    /\ cleaned = NotCleaned
    /\ recleaned = NotCleaned
    /\ pc = "idle"
    /\ requests = <<>>
    /\ failure = "none"

\* onChange of an input of the form
Edit ==
    /\ pc = "idle"
    /\ \E config \in Configs \ {modelConfig} : modelConfig' = config
    /\ UNCHANGED <<elsewhere, rev, modelfile, validation, cleaned, recleaned, call, response>>
    /\ UNCHANGED <<availableModels, validationErrors, isCreating, creationProgress, creationStatus, toast>>

\* createModel of the wizard after validateConfiguration has returned with errors
Decide(errors) ==
    /\ validationErrors' = errors
    /\ IF errors # <<>>
       THEN /\ toast' = "validationError"
            /\ pc' = "idle"
            /\ UNCHANGED <<modelfile, name, validation, cleaned, failure, reported>>
            /\ UNCHANGED <<isCreating, creationProgress, creationStatus>>
       ELSE /\ isCreating' = TRUE
            /\ creationProgress' = 0
            /\ creationStatus' = <<"I", "n", "i", "t", "i", "a", "l", "i", "z", "i", "n", "g", " ", "m", "o", "d", "e", "l", " ", "c", "r", "e", "a", "t", "i", "o", "n", ".", ".", ".">>
            /\ modelfile' = generateModelFile(modelConfig)
            /\ name' = trim(modelConfig.name)
            /\ pc' = "called"
            /\ validation' = NotValidated
            /\ cleaned' = NotCleaned
            /\ failure' = "none"
            /\ reported' = <<>>
            /\ UNCHANGED toast
    /\ UNCHANGED <<elsewhere, rev, recleaned, stream, partial, modelConfig, availableModels>>

\* onClick of the Create button: validateConfiguration up to its await, or to its end
ClickCreate ==
    /\ pc = "idle"
    /\ CreateEnabled
    /\ IF availableModels # <<>>
       THEN /\ requests' = <<>>
            /\ Decide(validateConfiguration(modelConfig, notInstalled(availableModels, modelConfig)))
       ELSE /\ requests' = <<Get("/tags")>>
            /\ pc' = "lookup"
            /\ UNCHANGED <<elsewhere, rev, modelfile, validation, cleaned, recleaned, name, failure, response, wizard>>

\* checkModelExists has answered (false when the request failed)
LookupReplied ==
    /\ pc = "lookup"
    /\ \E exists \in BOOLEAN :
           Decide(validateConfiguration(modelConfig,
                      IF exists THEN <<>> ELSE <<Err("baseModelNotInstalled", modelConfig.baseModel)>>))
    /\ UNCHANGED requests

\* what one chunk has done: r is the reading after its lines, rest the events still to come
Deliver(r, rest, head) ==
    /\ reported' = r.messages
    /\ creationProgress' = r.progress
    /\ creationStatus' = r.status
    /\ stream' = rest
    /\ partial' = head
    /\ IF r.thrown # "none"
       THEN pc' = "failed" /\ failure' = r.thrown
       ELSE UNCHANGED <<pc, failure>>

\* reader.read() returns a chunk: the rest of a split line (which does not parse),
\* whole lines, and possibly the first part of the next line (which does not parse)
ReadChunk ==
    /\ pc = "streaming"
    /\ \E whole \in 0..Len(stream), head \in BOOLEAN :
           /\ (IF partial THEN 1 ELSE 0) + whole + (IF head THEN 1 ELSE 0) <= Len(stream)
           /\ partial \/ whole > 0 \/ head
           /\ Deliver(processLines(Reading(reported, creationProgress, creationStatus, "none", FALSE),
                                   SubSeq(stream, (IF partial THEN 2 ELSE 1), (IF partial THEN 1 ELSE 0) + whole)),
                      SubSeq(stream, (IF partial THEN 2 ELSE 1) + whole, Len(stream)),
                      head)
    /\ UNCHANGED <<elsewhere, rev, modelfile, validation, cleaned, recleaned, name, requests>>
    /\ UNCHANGED <<modelConfig, availableModels, validationErrors, isCreating, toast>>

\* reader.read() returns done: createModel of the service returns
StreamEnd ==
    /\ pc = "streaming"
    /\ stream = <<>> /\ ~partial
    /\ pc' = "resolved"
    /\ UNCHANGED <<elsewhere, rev, modelfile, validation, cleaned, recleaned, name, requests, failure, response, wizard>>

\* the wizard after the await: progress 100 and the success toast
Succeeded ==
    /\ pc = "resolved"
    /\ creationProgress' = 100
    /\ creationStatus' = <<"M", "o", "d", "e", "l", " ", "c", "r", "e", "a", "t", "e", "d", " ", "s", "u", "c", "c", "e", "s", "s", "f", "u", "l", "l", "y", "!">>
    /\ toast' = "success"
    /\ pc' = "created"
    /\ UNCHANGED <<elsewhere, rev, modelfile, validation, cleaned, recleaned, name, requests, failure, response>>
    /\ UNCHANGED <<modelConfig, availableModels, validationErrors, isCreating>>

\* the timer set on success: the form is reset
ResetForm ==
    /\ pc = "created"
    /\ isCreating' = FALSE
    /\ creationProgress' = 0
    /\ creationStatus' = <<>>
    /\ modelConfig' = initialConfig
    /\ validationErrors' = <<>>
    /\ pc' = "idle"
    /\ UNCHANGED <<elsewhere, rev, modelfile, validation, cleaned, recleaned, name, requests, failure, response>>
    /\ UNCHANGED <<availableModels, toast>>

\* the catch block of the wizard
Caught ==
    /\ pc = "failed"
    /\ isCreating' = FALSE
    /\ creationProgress' = 0
    /\ creationStatus' = <<>>
    /\ toast' = "error"
    /\ pc' = "idle"
    /\ errorText' = <<>>
    /\ lastError' = <<>>
    /\ errorMessage' = <<>>
    /\ UNCHANGED <<settings, storage, navigation>>
    /\ UNCHANGED <<rev, modelfile, validation, cleaned, recleaned, name, requests, failure, response>>
    /\ UNCHANGED <<modelConfig, availableModels, validationErrors>>

Next ==
    \/ Edit
    \/ ClickCreate
    \/ LookupReplied
    \/ GetVersion
    \/ VersionReplied
    \/ Prepare
    \/ TagsReplied
    \/ CreateAccepted
    \/ CreateRejected
    \/ ReadChunk
    \/ StreamEnd
    \/ Succeeded
    \/ ResetForm
    \/ Caught

Spec == Init /\ [][Next]_vars

(***************************************************************************)
(* CreateModel.tsx: the configuration extracted from a stored ModelFile    *)
(***************************************************************************)

NoMatch == [found |-> FALSE, text |-> <<>>]

Matched(text) == [found |-> TRUE, text |-> text]

\* the characters of s before the first one that lies in chars
upTo(s, chars) == IF firstIndex(s, chars) = 0 THEN s ELSE SubSeq(s, 1, firstIndex(s, chars) - 1)

\* ([^\s\n]+) at the start of s
tokenOf(s) == IF upTo(s, WhiteSpace) = <<>> THEN NoMatch ELSE Matched(upTo(s, WhiteSpace))

\* ["']([^"']*?)["'] at the start of s
quotedOf(s) ==
    IF s # <<>> /\ Head(s) \in {DQ, SQ} /\ firstIndex(Tail(s), {DQ, SQ}) # 0
    THEN Matched(upTo(Tail(s), {DQ, SQ}))
    ELSE NoMatch

\* """([^"]*?)""" at the start of s
tripleQuotedOf(s) ==
    IF startsWith(s, TQ) /\ startsWith(substring(s, 3 + Len(upTo(substring(s, 3), {DQ}))), TQ)
    THEN Matched(upTo(substring(s, 3), {DQ}))
    ELSE NoMatch

\* \s+(.+) at the start of s: the white space gives back characters until one that is no line break follows
lineOf(s) ==
    IF \E j \in 1..(Len(s) - Len(trimStart(s))) : j < Len(s) /\ s[j + 1] # NL
    THEN Matched(upTo(substring(s, CHOOSE j \in 1..(Len(s) - Len(trimStart(s))) :
                                        /\ j < Len(s) /\ s[j + 1] # NL
                                        /\ \A k \in (j + 1)..(Len(s) - Len(trimStart(s))) : ~(k < Len(s) /\ s[k + 1] # NL)),
                      {NL}))
    ELSE NoMatch

\* \s+ and the capturing group of the given kind at the start of s
capture(kind, s) ==
    IF s = <<>> \/ Head(s) \notin WhiteSpace THEN NoMatch
    ELSE IF kind = "token" THEN tokenOf(trimStart(s))
    ELSE IF kind = "quoted" THEN quotedOf(trimStart(s))
    ELSE IF kind = "tripleQuoted" THEN tripleQuotedOf(trimStart(s))
    ELSE lineOf(s)

\* the regular expression (words in any case, separated by \s+, then the group) at the start of s
RECURSIVE matchAt(_, _, _)
matchAt(s, words, kind) ==
    IF ~startsWith(toLowerCase(SubSeq(s, 1, Min(Len(s), Len(Head(words))))), Head(words)) THEN NoMatch
    ELSE IF Len(words) = 1 THEN capture(kind, substring(s, Len(Head(words))))
    ELSE IF Len(s) = Len(Head(words)) \/ s[Len(Head(words)) + 1] \notin WhiteSpace THEN NoMatch
    ELSE matchAt(trimStart(substring(s, Len(Head(words)))), Tail(words), kind)

\* the group of the match at the least of the offsets, no match without any
leftmost(content, words, kind, offsets) ==
    IF offsets = {} THEN NoMatch
    ELSE matchAt(substring(content, CHOOSE i \in offsets : \A j \in offsets : i <= j), words, kind)

\* content.match(...): the group of the leftmost match
match(content, words, kind) ==
    leftmost(content, words, kind,
             {i \in 0..(Len(content) - 1) :
                 /\ lowerChar(content[i + 1]) = Head(Head(words))
                 /\ matchAt(substring(content, i), words, kind).found})

\* m ? m[1] : fallback
groupOr(m, fallback) == IF m.found THEN m.text ELSE fallback

\* the three expressions tried in turn for the system prompt
systemMatch(content) ==
    IF match(content, <<<<"s", "y", "s", "t", "e", "m">>>>, "quoted").found THEN match(content, <<<<"s", "y", "s", "t", "e", "m">>>>, "quoted")
    ELSE IF match(content, <<<<"s", "y", "s", "t", "e", "m">>>>, "tripleQuoted").found THEN match(content, <<<<"s", "y", "s", "t", "e", "m">>>>, "tripleQuoted")
    ELSE match(content, <<<<"s", "y", "s", "t", "e", "m">>>>, "line")

\* the configuration set by the effect for a stored ModelFile with this name, content and system field
extractConfiguration(fileName, content, fileSystem) ==
    [ name |-> fileName \o <<"-", "m", "o", "d", "e", "l">>,
      baseModel |-> groupOr(match(content, <<<<"f", "r", "o", "m">>>>, "token"), <<"l", "l", "a", "m", "a", "3", ".", "2">>),
      systemPrompt |-> groupOr(systemMatch(content), fileSystem),
      temperature |-> groupOr(match(content, <<<<"p", "a", "r", "a", "m", "e", "t", "e", "r">>, temperature>>, "token"), <<"0", ".", "8">>),
      maxTokens |-> groupOr(match(content, <<<<"p", "a", "r", "a", "m", "e", "t", "e", "r">>, num_ctx>>, "token"), <<"2", "0", "4", "8">>),
      topP |-> groupOr(match(content, <<<<"p", "a", "r", "a", "m", "e", "t", "e", "r">>, top_p>>, "token"), <<"0", ".", "9">>),
      topK |-> groupOr(match(content, <<<<"p", "a", "r", "a", "m", "e", "t", "e", "r">>, top_k>>, "token"), <<"4", "0">>),
      repeatPenalty |-> groupOr(match(content, <<<<"p", "a", "r", "a", "m", "e", "t", "e", "r">>, repeat_penalty>>, "token"), <<"1", ".", "1">>) ]

(***************************************************************************)
(* The builder applied to a configuration, its text normalized and loaded  *)
(* back into the wizard                                                    *)
(***************************************************************************)

\* what the fields of the form may hold
BaseModelPool == {<<"l", "l", "a", "m", "a", "3", ".", "2">>, <<"m">>, <<" ">>}

PromptPool == {<<>>, <<"h", "i">>, <<"a", "\n", "b">>, <<"s", "a", "y", " ", "\"", "x", "\"">>}

TemperaturePool == {<<"0", ".", "8">>, <<"5">>, <<"0", ".", "0", "5">>, <<"a", "b", "c">>, <<"-", "0", ".", "5">>, <<"1", ".", "2", ".", "3">>}

TopKPool == {<<"4", "0">>, <<"3", ".", "7">>, <<"0">>, <<"2", "0", "0">>}

BuilderConfigs ==
    { [initialConfig EXCEPT !.name = <<"m", "1">>, !.baseModel = b, !.systemPrompt = p, !.temperature = t, !.topK = k] :
          b \in BaseModelPool, p \in PromptPool, t \in TemperaturePool, k \in TopKPool }

BuilderInit ==
    /\ rev \in Revisions
    /\ Quiet
    /\ modelConfig \in BuilderConfigs
    /\ modelfile = <<>>
    /\ validation = NotValidated
    /\ cleaned = NotCleaned
    /\ recleaned = NotCleaned
    /\ name = <<>>
    /\ pc = "configured"
    /\ requests = <<>>
    /\ failure = "none"
    /\ stream = <<>>
    /\ partial = FALSE
    /\ reported = <<>>
    /\ availableModels = <<>>
    /\ validationErrors = <<>>
    /\ isCreating = FALSE
    /\ creationProgress = 0
    /\ creationStatus = <<>>
    /\ toast = "none"

\* generateModelFile() on the configuration in the form
Build ==
    /\ pc = "configured"
    /\ modelfile' = generateModelFile(modelConfig)
    /\ pc' = "built"
    /\ UNCHANGED <<elsewhere, rev, validation, cleaned, recleaned, name, requests, failure, response, wizard>>

\* the text goes through cleanModelFile, as it does when it is transmitted
Normalize ==
    /\ pc \in {"built", "loaded"}
    /\ Clean

\* the text is stored and opened in the wizard again: the effect sets the configuration
Load ==
    /\ pc = "built"
    /\ modelConfig' = extractConfiguration(modelConfig.name, modelfile, <<>>)
    /\ toast' = "loaded"
    /\ pc' = "loaded"
    /\ UNCHANGED <<elsewhere, rev, modelfile, validation, cleaned, recleaned, name, requests, failure, response>>
    /\ UNCHANGED <<availableModels, validationErrors, isCreating, creationProgress, creationStatus>>

BuilderNext ==
    \/ Build
    \/ Normalize
    \/ Load

BuilderSpec == BuilderInit /\ [][BuilderNext]_vars

(***************************************************************************)
(* Settings.tsx: the connectivity test                                     *)
(***************************************************************************)

\* the most testConnection calls (the mount effect and the button, which is never disabled)
MaxTests == 2

\* the longest connection timeout, in units of time
MaxTimeout == 2

\* parseInt(e.target.value) of the timeout input: NaN, a negative number, or a delay
TimeoutPool == {NaN} \cup {Num(k, 0) : k \in (-1)..MaxTimeout}

\* AbortSignal.timeout(milliseconds) throws a TypeError ([EnforceRange] unsigned long long)
timeoutThrows(milliseconds) == milliseconds.nan \/ milliseconds.m < 0

\* a fetch of /api/version that is awaited, and how long it has been
Pending(limit) == [phase |-> "pending", limit |-> limit, waited |-> 0, outcome |-> "none"]

Settled(test, outcome) == [test EXCEPT !.phase = "settled", !.outcome = outcome]

\* statusAfter with a catch block that leaves the status as it is
statusAfterWithoutCatch(outcome) ==
    IF outcome = "ok" THEN "connected"
    ELSE IF outcome = "notOk" THEN "disconnected"
    ELSE "testing"

\* the status set after the await: response.ok, the else branch, or the catch block
statusAfter(outcome) == IF outcome = "ok" THEN "connected" ELSE "disconnected"

\* the service and the wizard are not started
ServiceIdle ==
    /\ rev = "services"
    /\ modelfile = <<>>
    /\ validation = NotValidated
    /\ cleaned = NotCleaned
    /\ recleaned = NotCleaned
    /\ name = <<>>
    /\ pc = "idle"
    /\ requests = <<>>
    /\ failure = "none"
    /\ Unmounted
    /\ NotRejected

\* the service and the wizard
service == <<rev, modelfile, validation, cleaned, recleaned, call, response, wizard, rejection>>

SettingsInit ==
    /\ ServiceIdle
    /\ FirstStep
    /\ NoSaves
    /\ stored = <<>>
    /\ SettingsMounted
    /\ connectionTimeout \in TimeoutPool

\* updateSetting('connectionTimeout', parseInt(e.target.value))
ChangeTimeout ==
    /\ \E value \in TimeoutPool \ {connectionTimeout} : connectionTimeout' = value
    /\ UNCHANGED <<connectionStatus, tests, service, storage, navigation>>

\* testConnection up to its await, or through its catch block when AbortSignal.timeout throws
TestConnection ==
    /\ Len(tests) < MaxTests
    /\ IF timeoutThrows(connectionTimeout)
       THEN /\ connectionStatus' = statusAfter("thrown")
            /\ tests' = Append(tests, Settled(Pending(0), "thrown"))
       ELSE /\ connectionStatus' = "testing"
            /\ tests' = Append(tests, Pending(connectionTimeout.m))
    /\ UNCHANGED <<connectionTimeout, service, storage, navigation>>

\* what follows the await of test t
Settle(t, outcome) ==
    /\ tests' = [tests EXCEPT ![t] = Settled(tests[t], outcome)]
    /\ connectionStatus' = statusAfter(outcome)
    /\ UNCHANGED <<connectionTimeout, service, storage, navigation>>

\* the daemon replies before the signal aborts the request
Replied(t) ==
    /\ t \in 1..Len(tests)
    /\ tests[t].phase = "pending"
    /\ tests[t].waited < tests[t].limit
    /\ \E ok \in BOOLEAN : Settle(t, IF ok THEN "ok" ELSE "notOk")

\* fetch rejects: the daemon is not reachable
Unreachable(t) ==
    /\ t \in 1..Len(tests)
    /\ tests[t].phase = "pending"
    /\ tests[t].waited < tests[t].limit
    /\ Settle(t, "networkError")

\* the timer of AbortSignal.timeout fires: fetch rejects with a TimeoutError
TimedOut(t) ==
    /\ t \in 1..Len(tests)
    /\ tests[t].phase = "pending"
    /\ tests[t].waited >= tests[t].limit
    /\ Settle(t, "timeout")

\* a unit of time passes while no timer is due
Tick ==
    /\ \E t \in 1..Len(tests) : tests[t].phase = "pending"
    /\ \A t \in 1..Len(tests) : tests[t].phase = "pending" => tests[t].waited < tests[t].limit
    /\ tests' = [t \in 1..Len(tests) |->
                    IF tests[t].phase = "pending" THEN [tests[t] EXCEPT !.waited = @ + 1] ELSE tests[t]]
    /\ UNCHANGED <<connectionStatus, connectionTimeout, service, storage, navigation>>

SettingsNext ==
    \/ ChangeTimeout
    \/ TestConnection
    \/ \E t \in 1..MaxTests : Replied(t)
    \/ \E t \in 1..MaxTests : Unreachable(t)
    \/ \E t \in 1..MaxTests : TimedOut(t)
    \/ Tick

SettingsSpec == SettingsInit /\ [][SettingsNext]_vars

\* time passes and the browser runs the timers that are due
SettingsFairSpec ==
    /\ SettingsSpec
    /\ WF_vars(Tick)
    /\ \A t \in 1..MaxTests : WF_vars(TimedOut(t))

(***************************************************************************)
(* ModelFileService: the stored collection                                 *)
(***************************************************************************)

\* the latest time on the clock
MaxClock == 2

\* names of the ModelFiles saved
FileNames == {"a", "b", "c"}

\* { ...modelFile, id: Date.now().toString(), createdAt, updatedAt }
newModelFile(fileName, time) == [name |-> fileName, id |-> time]

\* getModelFiles(): the collection parsed from localStorage at the time of the call
getModelFiles == stored

StorageInit ==
    /\ ServiceIdle
    /\ FirstStep
    /\ SettingsMounted
    /\ connectionTimeout = Num(2, 0)
    /\ NoSaves
    /\ stored \in {<<>>, <<newModelFile("c", 0)>>}

\* saveModelFile up to its await: getModelFiles() has read the collection
StartSave(c) ==
    /\ saves[c].phase = "idle"
    /\ \E fileName \in FileNames \ {"c"} :
           saves' = [saves EXCEPT ![c] = [phase |-> "saving", name |-> fileName,
                                          modelFiles |-> getModelFiles, saved |-> <<>>]]
    /\ UNCHANGED <<stored, now, service, settings, navigation>>

\* saveModelFile after its await: the record is pushed on the array that was read
\* and the array is written
FinishSave(c) ==
    /\ saves[c].phase = "saving"
    /\ stored' = Append(saves[c].modelFiles, newModelFile(saves[c].name, now))
    /\ saves' = [saves EXCEPT ![c].phase = "done", ![c].saved = <<newModelFile(saves[c].name, now)>>]
    /\ UNCHANGED <<now, service, settings, navigation>>

\* duplicateModelFile up to its await
StartDuplicate(c) ==
    /\ saves[c].phase = "idle"
    /\ stored # <<>>
    /\ \E fileName \in FileNames \ {"c"} :
           saves' = [saves EXCEPT ![c] = [phase |-> "duplicating", name |-> fileName,
                                          modelFiles |-> getModelFiles, saved |-> <<>>]]
    /\ UNCHANGED <<stored, now, service, settings, navigation>>

\* duplicateModelFile after its await: the original was found in the array that was
\* read, and saveModelFile is called with the new name
ContinueDuplicate(c) ==
    /\ saves[c].phase = "duplicating"
    /\ saves' = [saves EXCEPT ![c].phase = "saving", ![c].modelFiles = getModelFiles]
    /\ UNCHANGED <<stored, now, service, settings, navigation>>

\* a millisecond passes
ClockTick ==
    /\ now < MaxClock
    /\ now' = now + 1
    /\ UNCHANGED <<stored, saves, service, settings, navigation>>

StorageNext ==
    \/ \E c \in 1..MaxSaves : StartSave(c)
    \/ \E c \in 1..MaxSaves : FinishSave(c)
    \/ \E c \in 1..MaxSaves : StartDuplicate(c)
    \/ \E c \in 1..MaxSaves : ContinueDuplicate(c)
    \/ ClockTick

StorageSpec == StorageInit /\ [][StorageNext]_vars

(***************************************************************************)
(* CreateModel.tsx: the steps and the Create button                        *)
(***************************************************************************)

\* { ...step, ...updates }
merged(step, updates) == [k \in DOMAIN step |-> IF k \in DOMAIN updates THEN updates[k] ELSE step[k]]

\* prev.map((step, index) => index === stepIndex ? { ...step, ...updates } : step)
updateStep(prev, stepIndex, updates) ==
    [index \in DOMAIN prev |-> IF index = stepIndex + 1 THEN merged(prev[index], updates) ELSE prev[index]]

\* the two updateStep calls of nextStep
stepsAfterNext(prev, index) ==
    updateStep(updateStep(prev, index, [completed |-> TRUE, current |-> FALSE]), index + 1, [current |-> TRUE])

\* prevStep that leaves the completed mark of the step it returns to
stepsAfterPrevKeepingMark(prev, index) ==
    updateStep(updateStep(prev, index, [current |-> FALSE]), index - 1, [current |-> TRUE])

\* the two updateStep calls of prevStep
stepsAfterPrev(prev, index) ==
    updateStep(updateStep(prev, index, [current |-> FALSE]), index - 1, [current |-> TRUE, completed |-> FALSE])

WizardInit ==
    /\ rev = "services"
    /\ modelfile = <<>>
    /\ validation = NotValidated
    /\ cleaned = NotCleaned
    /\ recleaned = NotCleaned
    /\ name = <<>>
    /\ pc = "idle"
    /\ requests = <<>>
    /\ failure = "none"
    /\ stream = <<>>
    /\ partial = FALSE
    /\ reported = <<>>
    /\ modelConfig \in Configs
    /\ availableModels \in {<<>>, <<<<"l", "l", "a", "m", "a", "3", ".", "2">>>>}
    /\ validationErrors = <<>>
    /\ isCreating = FALSE
    /\ creationProgress = 0
    /\ creationStatus = <<>>
    /\ toast = "none"
    /\ NotRejected
    /\ SettingsMounted
    /\ connectionTimeout = Num(2, 0)
    /\ NoSaves
    /\ stored = <<>>
    /\ FirstStep

\* onClick of Next, shown on every step but the last and disabled while isCreating
NextStep ==
    /\ ~isCreating
    /\ currentStep # Len(stepsState) - 1
    /\ IF currentStep < Len(stepsState) - 1
       THEN /\ stepsState' = stepsAfterNext(stepsState, currentStep)
            /\ currentStep' = currentStep + 1
       ELSE UNCHANGED <<stepsState, currentStep>>
    /\ UNCHANGED <<flows, service, settings, storage>>

\* onClick of Previous, disabled on the first step and while isCreating
PrevStep ==
    /\ ~(currentStep = 0 \/ isCreating)
    /\ IF currentStep > 0
       THEN /\ stepsState' = stepsAfterPrev(stepsState, currentStep)
            /\ currentStep' = currentStep - 1
       ELSE UNCHANGED <<stepsState, currentStep>>
    /\ UNCHANGED <<flows, service, settings, storage>>

\* createModel of the wizard after validateConfiguration has returned: the errors are
\* shown, or isCreating is set and createModel of the service sends its request
Proceed(f, config, errors) ==
    /\ validationErrors' = errors
    /\ IF errors # <<>>
       THEN /\ toast' = "validationError"
            /\ flows' = [flows EXCEPT ![f] = [phase |-> "over", config |-> config]]
            /\ UNCHANGED <<isCreating, creationProgress, creationStatus>>
       ELSE /\ isCreating' = TRUE
            /\ creationProgress' = 0
            /\ creationStatus' = <<"I", "n", "i", "t", "i", "a", "l", "i", "z", "i", "n", "g", " ", "m", "o", "d", "e", "l", " ", "c", "r", "e", "a", "t", "i", "o", "n", ".", ".", ".">>
            /\ flows' = [flows EXCEPT ![f] = [phase |-> "posting", config |-> config]]
            /\ UNCHANGED toast
    /\ UNCHANGED <<rev, modelfile, validation, cleaned, recleaned, call, response, rejection>>
    /\ UNCHANGED <<modelConfig, availableModels, currentStep, stepsState, settings, storage>>

\* onClick of Create, shown on the last step: validateConfiguration up to its await on
\* checkModelExists, or to its end when the list of models is loaded
Create(f) ==
    /\ flows[f].phase = "idle"
    /\ currentStep = Len(stepsState) - 1
    /\ CreateEnabled
    /\ IF availableModels # <<>>
       THEN Proceed(f, modelConfig, validateConfiguration(modelConfig, notInstalled(availableModels, modelConfig)))
       ELSE /\ flows' = [flows EXCEPT ![f] = [phase |-> "validating", config |-> modelConfig]]
            /\ UNCHANGED <<currentStep, stepsState, service, settings, storage>>

\* checkModelExists has answered the click f
Looked(f) ==
    /\ flows[f].phase = "validating"
    /\ \E exists \in BOOLEAN :
           Proceed(f, flows[f].config,
                      validateConfiguration(flows[f].config,
                          IF exists THEN <<>> ELSE <<Err("baseModelNotInstalled", flows[f].config.baseModel)>>))

\* POST /api/create of the click f has ended: the success toast, or the catch block
Posted(f) ==
    /\ flows[f].phase = "posting"
    /\ \E ok \in BOOLEAN :
           IF ok
           THEN /\ creationProgress' = 100
                /\ creationStatus' = <<"M", "o", "d", "e", "l", " ", "c", "r", "e", "a", "t", "e", "d", " ", "s", "u", "c", "c", "e", "s", "s", "f", "u", "l", "l", "y", "!">>
                /\ toast' = "success"
                /\ flows' = [flows EXCEPT ![f].phase = "created"]
                /\ UNCHANGED isCreating
           ELSE /\ isCreating' = FALSE
                /\ creationProgress' = 0
                /\ creationStatus' = <<>>
                /\ toast' = "error"
                /\ flows' = [flows EXCEPT ![f].phase = "over"]
    /\ UNCHANGED <<rev, modelfile, validation, cleaned, recleaned, call, response, rejection>>
    /\ UNCHANGED <<modelConfig, availableModels, validationErrors, currentStep, stepsState, settings, storage>>

\* the timer set on success by the click f: the form and the steps are reset
Reset(f) ==
    /\ flows[f].phase = "created"
    /\ isCreating' = FALSE
    /\ creationProgress' = 0
    /\ creationStatus' = <<>>
    /\ currentStep' = 0
    /\ stepsState' = steps
    /\ modelConfig' = initialConfig
    /\ validationErrors' = <<>>
    /\ flows' = [flows EXCEPT ![f].phase = "over"]
    /\ UNCHANGED <<rev, modelfile, validation, cleaned, recleaned, call, response, rejection>>
    /\ UNCHANGED <<availableModels, toast, settings, storage>>

WizardNext ==
    \/ NextStep
    \/ PrevStep
    \/ \E f \in 1..MaxFlows : Create(f)
    \/ \E f \in 1..MaxFlows : Looked(f)
    \/ \E f \in 1..MaxFlows : Posted(f)
    \/ \E f \in 1..MaxFlows : Reset(f)

WizardSpec == WizardInit /\ [][WizardNext]_vars

(***************************************************************************)
(* Vocabulary of the properties                                            *)
(***************************************************************************)

InputLines == splitLines(modelfile)

OutputLines == splitLines(cleaned.text)

IsFromLine(line) == startsWith(toUpperCase(trim(line)), FROM_)

IsSystemLine(line) == startsWith(toUpperCase(trim(line)), SYSTEM_)

FromLineCount == Cardinality({i \in 1..Len(InputLines) : IsFromLine(InputLines[i])})

HasRule(errors, rule) == \E i \in 1..Len(errors) : errors[i].rule = rule

systemDocument(layers) == join(<<baseLine, SYSTEM_ \o wrap(layers, hi)>>, <<NL>>)

\* the FROM line there is has a name made of letters, digits and . _ : -
FromRuleBroken ==
    \/ FromLineCount # 1
    \/ \E i \in 1..Len(InputLines) :
          /\ IsFromLine(InputLines[i])
          /\ \/ Len(splitSpaces(trim(InputLines[i]))) < 2
             \/ ~isModelName(splitSpaces(trim(InputLines[i]))[2])

\* the PARAMETER lines rejected by the validator's check of one line
BrokenParameterLines ==
    {i \in 1..Len(InputLines) :
        /\ startsWith(toUpperCase(trim(InputLines[i])), PARAMETER_)
        /\ validateParameterLine(trim(InputLines[i])) # <<>>}

BrokenSystemLines ==
    {i \in 1..Len(InputLines) :
        IsSystemLine(InputLines[i]) /\ trim(substring(trim(InputLines[i]), 7)) = <<>>}

BrokenRules ==
    (IF FromRuleBroken THEN 1 ELSE 0) + Cardinality(BrokenParameterLines) + Cardinality(BrokenSystemLines)

\* the parameters with a range, and those of integer type (specification, section 3)
RangedParams == {temperature, top_p, top_k, repeat_penalty, num_ctx}

IntegerParams == {top_k, num_ctx}

RangeMin(paramName) ==
    CASE paramName = temperature -> Num(1, -1)
      [] paramName = top_p -> Num(1, -1)
      [] paramName = top_k -> Num(1, 0)
      [] paramName = repeat_penalty -> Num(5, -1)
      [] paramName = num_ctx -> Num(512, 0)

RangeMax(paramName) ==
    CASE paramName = temperature -> Num(20, -1)
      [] paramName = top_p -> Num(10, -1)
      [] paramName = top_k -> Num(100, 0)
      [] paramName = repeat_penalty -> Num(20, -1)
      [] paramName = num_ctx -> Num(32768, 0)

numEquals(x, y) == ~x.nan /\ ~y.nan /\ ~lessThan(x, y) /\ ~lessThan(y, x)

InRange(paramName, x) == ~x.nan /\ ~lessThan(x, RangeMin(paramName)) /\ ~lessThan(RangeMax(paramName), x)

\* a PARAMETER line with a paramName and a value
IsParameterLine(line) ==
    /\ startsWith(toUpperCase(trim(line)), PARAMETER_)
    /\ Len(splitSpaces(trim(line))) >= 3

IsRangedLine(line) == IsParameterLine(line) /\ toLowerCase(splitSpaces(trim(line))[2]) \in RangedParams

NameOf(line) == toLowerCase(splitSpaces(trim(line))[2])

\* the value of a PARAMETER line: all that follows the paramName
ValueOf(line) == join(SubSeq(splitSpaces(trim(line)), 3, Len(splitSpaces(trim(line)))), <<" ">>)

\* the length of an exponent part at the head of s, 0 when there is none
exponentLength(s) ==
    IF s # <<>> /\ Head(s) \in {"e", "E"} /\ digitPrefix(unsigned(Tail(s))) # <<>>
    THEN 1 + (Len(Tail(s)) - Len(unsigned(Tail(s)))) + Len(digitPrefix(unsigned(Tail(s))))
    ELSE 0

\* the length of the decimal literal at the head of s
literalLength(s) ==
    LET u == unsigned(s)
        r == substring(u, Len(digitPrefix(u)))
    IN  (Len(s) - Len(u)) + Len(digitPrefix(u)) + (Len(r) - Len(afterFraction(r)))
        + exponentLength(afterFraction(r))

\* the whole of v is a decimal literal
IsNumeric(v) == ~isNaN(parseFloat(v)) /\ literalLength(v) = Len(v)

\* v is a value of the declared type of the parameter, inside its range
Acceptable(paramName, v) ==
    /\ IsNumeric(v)
    /\ paramName \in IntegerParams => isInteger(parseFloat(v))
    /\ InRange(paramName, parseFloat(v))

RangeRules == {"temperatureRange", "topPRange", "topKRange", "repeatPenaltyRange", "numCtxRange"}

\* the violations reported for values of the parameters with a range
RangedViolations(errors) ==
    SelectSeq(errors, LAMBDA e :
        \/ e.rule \in RangeRules
        \/ e.rule = "invalidNumber" /\ ~startsWith(e.text, num_predict))

UnacceptableLines ==
    {i \in 1..Len(InputLines) :
        IsRangedLine(InputLines[i]) /\ ~Acceptable(NameOf(InputLines[i]), ValueOf(InputLines[i]))}

\* what the normalizer is to write for the value v of a parameter with a range
\* (values compared as numbers, the default as text)
IsExpectedValue(paramName, v, out) ==
    IF ~IsNumeric(v) THEN out = defaults(paramName)
    ELSE IF lessThan(parseFloat(v), RangeMin(paramName)) THEN IsNumeric(out) /\ numEquals(parseFloat(out), RangeMin(paramName))
    ELSE IF lessThan(RangeMax(paramName), parseFloat(v)) THEN IsNumeric(out) /\ numEquals(parseFloat(out), RangeMax(paramName))
    ELSE IsNumeric(out) /\ numEquals(parseFloat(out), parseFloat(v))

(***************************************************************************)
(* Properties of the normalizer and the validator                          *)
(***************************************************************************)

\* C1: a createModel call on a text that validateModelFile rejects sends no
\* request to the daemon, never goes on to creation, and, its name being usable,
\* fails with the validation error
\* (the claim as stated; the code does not satisfy it)
C1_NoRequestOnInvalid ==
    ~validateModelFile(modelfile).isValid =>
        /\ requests = <<>>
        /\ pc \notin {"tags", "creating", "streaming"}
        /\ (pc = "failed" /\ cleanNameOf(name) # <<>>) => failure = "validationFailed"

\* C2: cleanModelFile applied to a text it has cleaned returns that text again
\* (the claim as stated; the code does not satisfy it)
C2_Idempotent == recleaned.done => (recleaned.ok /\ recleaned.text = cleaned.text)

\* C3: a SYSTEM line whose text is wrapped in one triple-double-quote pair is
\* left unchanged by cleanModelFile, also when its output is cleaned again
\* (the claim as stated; the code does not satisfy it)
C3_QuotedSystemUnchanged ==
    /\ (cleaned.done /\ modelfile = systemDocument(<<TQ>>)) => (cleaned.ok /\ cleaned.text = modelfile)
    /\ (recleaned.done /\ modelfile = systemDocument(<<TQ>>)) => (recleaned.ok /\ recleaned.text = modelfile)

\* C4: whatever layers of single, double and triple-double quotes wrap a
\* SYSTEM text, cleanModelFile emits the bare text in one triple-double-quote pair
\* (the claim as stated; the code does not satisfy it)
C4_AllLayersRemoved ==
    \A layers \in SeqsUpTo(QuoteMarks, MaxLayers) :
        (cleaned.done /\ modelfile = systemDocument(layers))
            => (cleaned.ok /\ cleaned.text = systemDocument(<<TQ>>))

C7_ViolationIffUnacceptable ==
    validation.done => Len(RangedViolations(validation.errors)) = Cardinality(UnacceptableLines)

\* C8: cleanModelFile writes min for a value below min, max for a value above
\* max, the default for a value that is no number, and an in-range value as given
\* (the claim as stated; the code does not satisfy it)
C8_ClampOrDefault ==
    (cleaned.done /\ cleaned.ok) =>
        \A i \in 1..Len(InputLines) :
            IsRangedLine(InputLines[i]) =>
                /\ IsRangedLine(OutputLines[i])
                /\ IsExpectedValue(NameOf(InputLines[i]), ValueOf(InputLines[i]), ValueOf(OutputLines[i]))

\* C9: for top_k and num_ctx, cleanModelFile turns a value that is a number but
\* no integer into an integer inside [min, max]
\* (the claim as stated; the code does not satisfy it)
C9_IntegerWithinRange ==
    (cleaned.done /\ cleaned.ok) =>
        \A i \in 1..Len(InputLines) :
            ( /\ IsRangedLine(InputLines[i])
              /\ NameOf(InputLines[i]) \in IntegerParams
              /\ IsNumeric(ValueOf(InputLines[i]))
              /\ ~isInteger(parseFloat(ValueOf(InputLines[i]))) )
            => /\ IsRangedLine(OutputLines[i])
               /\ IsNumeric(ValueOf(OutputLines[i]))
               /\ isInteger(parseFloat(ValueOf(OutputLines[i])))
               /\ InRange(NameOf(InputLines[i]), parseFloat(ValueOf(OutputLines[i])))

\* the PARAMETER lines of a transmitted text that name a parameter with a range
RangedLinesOf(text) == SelectSeq(splitLines(text), IsRangedLine)

\* C10: in every ModelFile text sent to POST /api/create, each PARAMETER line
\* for temperature, top_p, top_k, repeat_penalty or num_ctx carries a value
\* inside [min, max]
\* (the claim as stated; the code does not satisfy it)
C10_TransmittedInRange ==
    \A i \in 1..Len(requests) :
        (requests[i].path = "/create" /\ requests[i].body.kind = "modelfile") =>
            \A j \in 1..Len(RangedLinesOf(requests[i].body.modelfile)) :
                InRange(NameOf(RangedLinesOf(requests[i].body.modelfile)[j]),
                        parseFloat(ValueOf(RangedLinesOf(requests[i].body.modelfile)[j])))

\* the value of the progress bar after the callback has run for each of the
\* messages in turn, starting from the 0 set when the creation starts
RECURSIVE progressAfter(_)
progressAfter(messages) ==
    IF messages = <<>> THEN 0
    ELSE onProgress(Reading(<<>>, progressAfter(SubSeq(messages, 1, Len(messages) - 1)), <<>>, "none", FALSE),
                    messages[Len(messages)]).progress

\* C11: while a creation runs, the value of the progress bar after a progress
\* event is never below its value after the event before, whatever the order
\* of the status events of the daemon
\* (the claim as stated; the code does not satisfy it)
C11_ProgressNeverDecreases ==
    \A i \in 1..Len(reported) :
        progressAfter(SubSeq(reported, 1, i)) >= progressAfter(SubSeq(reported, 1, i - 1))

\* the service has read a line with status success, or with done and a status
SuccessLineRead == \E i \in 1..Len(reported) : reported[i] = <<"M", "o", "d", "e", "l", " ", "c", "r", "e", "a", "t", "e", "d", " ", "s", "u", "c", "c", "e", "s", "s", "f", "u", "l", "l", "y", "!">>

\* C12: the progress bar shows 100 only after the daemon has sent its success
\* line: neither the events before it nor a response body that ends without
\* it bring the progress to 100
\* (the claim as stated; the code does not satisfy it)
C12_CompleteOnlyOnSuccessLine ==
    creationProgress = 100 => SuccessLineRead

\* the reading r of a whole line is taken over: its messages follow those
\* reported before, and the error it throws ends the call
TakenOver(r, messagesAfter, pcAfter) ==
    /\ Len(messagesAfter) >= Len(r.messages)
    /\ SubSeq(messagesAfter, 1, Len(r.messages)) = r.messages
    /\ r.thrown # "none" => pcAfter = "failed"

\* C13: a line of the response body that arrives split over two chunks is not
\* lost: the chunk that brings its second part has it processed as the whole
\* line would have been
\* (the claim as stated; the code does not satisfy it)
C13_SplitLineNotLost ==
    [][(pc = "streaming" /\ partial /\ stream' # stream)
          => TakenOver(processLine(Reading(reported, creationProgress, creationStatus, "none", FALSE), Head(stream)),
                       reported', pc')]_vars

\* among these lines there is one with an error field, and no line before
\* it completes the creation
ErrorLineAmong(events) ==
    \E i \in 1..Len(events) :
        /\ events[i].error # <<>>
        /\ \A j \in 1..(i - 1) :
               events[j].error = <<>> /\ events[j].status # <<"s", "u", "c", "c", "e", "s", "s">> /\ ~events[j].done

\* C14: in the service of src/src/services/ollama.ts, an error status on
\* POST /api/create, or a line of the response body with an error field, ends
\* the call failed with an error recorded; the wizard then leaves the creation
\* with isCreating false, progress 0, no status text and the error shown
\* (the claim as stated; the code does not satisfy it)
C14_ErrorsEndFailed ==
    [][rev = "services" =>
        /\ (pc = "creating" /\ pc' # "streaming" /\ pc' # pc)
              => (pc' = "failed" /\ failure' # "none")
        /\ (pc = "streaming" /\ ErrorLineAmong(SubSeq(stream, 1, Len(stream) - Len(stream'))))
              => (pc' = "failed" /\ failure' # "none")
        /\ (pc = "failed" /\ pc' # pc)
              => (pc' = "idle" /\ ~isCreating' /\ creationProgress' = 0 /\ creationStatus' = <<>>
                  /\ toast' = "error" /\ failure' # "none")]_vars

\* the list of installed models is loaded and validateConfiguration would find
\* no error in the configuration now in the form
ConfigurationCorrect ==
    /\ availableModels # <<>>
    /\ validateConfiguration(modelConfig, notInstalled(availableModels, modelConfig)) = <<>>

\* C15: after validateConfiguration has rejected a configuration the wizard is
\* idle (no creation running), and once the configuration in the form is
\* correct the Create button is enabled again
\* (the claim as stated; the code does not satisfy it)
C15_CreateEnabledOnceCorrected ==
    pc = "idle" =>
        /\ ~isCreating
        /\ ConfigurationCorrect => CreateEnabled

\* loaded holds the base model, the parameter values and the system prompt
\* that the builder wrote for config
SameSettings(config, loaded) ==
    /\ loaded.baseModel = orElse(trim(config.baseModel), <<"l", "l", "a", "m", "a", "3", ".", "2">>)
    /\ loaded.temperature = sanitizeNumericValue(config.temperature, Num(1, -1), Num(20, -1), <<"0", ".", "8">>)
    /\ loaded.maxTokens = sanitizeNumericValue(config.maxTokens, Num(512, 0), Num(32768, 0), <<"2", "0", "4", "8">>)
    /\ loaded.topP = sanitizeNumericValue(config.topP, Num(1, -1), Num(10, -1), <<"0", ".", "9">>)
    /\ loaded.topK = sanitizeNumericValue(config.topK, Num(1, 0), Num(100, 0), <<"4", "0">>)
    /\ loaded.repeatPenalty = sanitizeNumericValue(config.repeatPenalty, Num(5, -1), Num(20, -1), <<"1", ".", "1">>)
    /\ loaded.systemPrompt = orElse(trim(config.systemPrompt), <<"Y", "o", "u", " ", "a", "r", "e", " ", "a", " ", "h", "e", "l", "p", "f", "u", "l", " ", "A", "I", " ", "a", "s", "s", "i", "s", "t", "a", "n", "t", ".">>)

\* C16: for a configuration that the builder writes as it stands (base model
\* and system prompt trimmed and not empty, numbers inside their ranges),
\* loading the text that the builder produced back into the wizard gives the
\* same base model, parameter values and system prompt
\* (the claim as stated; the code does not satisfy it)
C16_LoadRestoresSettings ==
    [][(pc = "built" /\ pc' = "loaded" /\ SameSettings(modelConfig, modelConfig))
          => SameSettings(modelConfig, modelConfig')]_vars

\* C17: for a configuration whose system prompt has a line break, the text
\* that cleanModelFile makes of the builder's text ends with the SYSTEM
\* directive the builder wrote: the prompt between one pair of triple double
\* quotes
\* (the claim as stated; the code does not satisfy it)
C17_MultiLineSystemUnchanged ==
    (pc = "built" /\ cleaned.done /\ NL \in {trim(modelConfig.systemPrompt)[i] : i \in 1..Len(trim(modelConfig.systemPrompt))})
        => /\ cleaned.ok
           /\ endsWith(cleaned.text, <<NL>> \o SYSTEM_ \o TQ \o trim(modelConfig.systemPrompt) \o TQ)

\* the value of the PARAMETER line for paramName in the text
WrittenValue(text, paramName) == match(text, <<<<"p", "a", "r", "a", "m", "e", "t", "e", "r">>, paramName>>, "token").text

\* written is a number of [min, max]: min for a typed number below min, max
\* for one above max, the default for a typed text that is no number
ClampedOrDefault(typed, written, min, max, defaultValue) ==
    /\ ~isNaN(parseFloat(written))
    /\ ~lessThan(parseFloat(written), min)
    /\ ~lessThan(max, parseFloat(written))
    /\ isNaN(parseFloat(typed)) => written = defaultValue
    /\ (~isNaN(parseFloat(typed)) /\ lessThan(parseFloat(typed), min)) => written = toString(min)
    /\ (~isNaN(parseFloat(typed)) /\ lessThan(max, parseFloat(typed))) => written = toString(max)

\* C18: every numeric value in the text of the builder lies in the range of
\* its parameter: a typed value below the minimum is written as the minimum,
\* one above the maximum as the maximum, and one that is no number as the
\* default
\* (the claim as stated; the code does not satisfy it)
C18_BuilderClampsOrDefaults ==
    pc = "built" =>
        /\ ClampedOrDefault(modelConfig.temperature, WrittenValue(modelfile, temperature), Num(1, -1), Num(20, -1), <<"0", ".", "8">>)
        /\ ClampedOrDefault(modelConfig.maxTokens, WrittenValue(modelfile, num_ctx), Num(512, 0), Num(32768, 0), <<"2", "0", "4", "8">>)
        /\ ClampedOrDefault(modelConfig.topP, WrittenValue(modelfile, top_p), Num(1, -1), Num(10, -1), <<"0", ".", "9">>)
        /\ ClampedOrDefault(modelConfig.topK, WrittenValue(modelfile, top_k), Num(1, 0), Num(100, 0), <<"4", "0">>)
        /\ ClampedOrDefault(modelConfig.repeatPenalty, WrittenValue(modelfile, repeat_penalty), Num(5, -1), Num(20, -1), <<"1", ".", "1">>)

\* what a line of a ModelFile text is: FROM, SYSTEM, the name of the parameter
\* of a PARAMETER line, # for a comment, empty for an empty line, text otherwise
DirectiveOf(line) ==
    IF startsWith(line, FROM_) THEN <<"F", "R", "O", "M">>
    ELSE IF startsWith(line, SYSTEM_) THEN <<"S", "Y", "S", "T", "E", "M">>
    ELSE IF startsWith(line, PARAMETER_) THEN splitSpaces(line)[2]
    ELSE IF line = <<>> THEN <<>>
    ELSE IF Head(line) = "#" THEN <<"#">>
    ELSE <<"t", "e", "x", "t">>

DirectivesOf(lines) == [i \in 1..Len(lines) |-> DirectiveOf(lines[i])]

\* the lines that are a FROM, PARAMETER or SYSTEM directive
IsDirective(d) == d \notin {<<>>, <<"#">>, <<"t", "e", "x", "t">>}

\* C19: the text of the builder starts with its FROM line, has its PARAMETER
\* lines in the order temperature, num_ctx, top_p, top_k, repeat_penalty (there
\* is no num_predict line), and its SYSTEM directive comes last and runs to
\* the end of the text
C19_BuilderOrder ==
    pc = "built" =>
        /\ Len(splitLines(modelfile)) >= 11
        /\ SubSeq(DirectivesOf(splitLines(modelfile)), 1, 11)
             = << <<"F", "R", "O", "M">>, <<>>, <<"#">>, temperature, num_ctx, top_p, top_k, repeat_penalty, <<>>, <<"#">>, <<"S", "Y", "S", "T", "E", "M">> >>
        /\ startsWith(splitLines(modelfile)[11], SYSTEM_ \o TQ)
        /\ endsWith(modelfile, TQ)

\* C19: a text of the builder whose system prompt runs over more than a line
C19_Witness ==
    pc = "built" /\ Len(splitLines(modelfile)) > 11

\* C19 as stated: the directives of the builder's text are FROM, then the
\* PARAMETER lines for temperature, top_p, top_k, repeat_penalty, num_ctx and
\* num_predict in this order, then SYSTEM
C19_TableOrder ==
    pc = "built" =>
        SelectSeq(DirectivesOf(splitLines(modelfile)), IsDirective)
            = << <<"F", "R", "O", "M">>, temperature, top_p, top_k, repeat_penalty, num_ctx, num_predict, <<"S", "Y", "S", "T", "E", "M">> >>

\* line i of the lines is the last PARAMETER line for its parameter name
IsLastOccurrence(lines, i) ==
    /\ IsParameterLine(lines[i])
    /\ \A j \in (i + 1)..Len(lines) : IsParameterLine(lines[j]) => NameOf(lines[j]) # NameOf(lines[i])

\* C20: in the text that cleanModelFile returns no two PARAMETER lines name
\* the same parameter, and the PARAMETER line of a name carries the (cleaned)
\* value of the last line that the input had for this name
\* (the claim as stated; the code does not satisfy it)
C20_LastParameterWins ==
    (cleaned.done /\ cleaned.ok) =>
        /\ \A i, j \in 1..Len(OutputLines) :
               (i < j /\ IsParameterLine(OutputLines[i]) /\ IsParameterLine(OutputLines[j]))
                   => NameOf(OutputLines[i]) # NameOf(OutputLines[j])
        /\ \A i \in 1..Len(InputLines), k \in 1..Len(OutputLines) :
               (IsLastOccurrence(InputLines, i) /\ IsParameterLine(OutputLines[k])
                    /\ NameOf(OutputLines[k]) = NameOf(InputLines[i]))
                   => ValueOf(OutputLines[k]) = ValueOf(cleanLine(rev, InputLines[i]).text)

\* the line has the counters of a transfer and neither fails nor ends the creation
IsCounterLine(event) ==
    /\ event.total # 0 /\ event.completed # 0
    /\ event.error = <<>>
    /\ event.status # <<"s", "u", "c", "c", "e", "s", "s">> /\ ~event.done

\* the line ends the creation
IsSuccessLine(event) ==
    event.error = <<>> /\ (event.status = <<"s", "u", "c", "c", "e", "s", "s">> \/ (event.done /\ event.status # <<>>))

\* C21: after a chunk that holds one line with the counters of a transfer the
\* progress bar shows round(completed / total * 100), kept below 100, and
\* after a chunk that holds the success line it shows 100
\* (the claim as stated; the code does not satisfy it)
C21_PercentShown ==
    [][(pc = "streaming" /\ ~partial /\ ~partial' /\ Len(stream) - Len(stream') = 1)
          => /\ IsCounterLine(Head(stream))
                  => /\ creationProgress' < 100
                     /\ percentOf(Head(stream)) <= 95 => creationProgress' = percentOf(Head(stream))
             /\ IsSuccessLine(Head(stream)) => creationProgress' = 100]_vars

\* C22: once createModel has read the success line and reported
\* 'Model created successfully!', it reads no further line of the response:
\* no message is reported after this one and no error is thrown
\* (the claim as stated; the code does not satisfy it)
C22_NothingAfterSuccess ==
    [][(pc = "streaming" /\ SuccessLineRead)
          => (reported' = reported /\ pc' # "failed")]_vars

\* the trimmed line is a directive with this keyword (and no comment)
HasKeyword(line, keyword) == startsWith(toUpperCase(trim(line)), keyword)

\* the line is empty, a comment, or no FROM, PARAMETER or SYSTEM directive
IsKept(line) ==
    \/ trim(line) = <<>>
    \/ startsWith(trim(line), <<"#">>)
    \/ ~(HasKeyword(line, FROM_) \/ HasKeyword(line, PARAMETER_) \/ HasKeyword(line, SYSTEM_))

\* C23: the text that cleanModelFile returns has one line for each line of
\* its input, in the same order: an empty line, a comment and a line that is
\* no FROM, PARAMETER or SYSTEM directive stand in it as their trimmed text,
\* and a directive stands at the place of the directive it was made of
C23_LineForLine ==
    (cleaned.done /\ cleaned.ok) =>
        /\ Len(OutputLines) = Len(InputLines)
        /\ \A i \in 1..Len(InputLines) :
               IF IsKept(InputLines[i]) THEN OutputLines[i] = trim(InputLines[i])
               ELSE \E keyword \in {FROM_, PARAMETER_, SYSTEM_} :
                        HasKeyword(InputLines[i], keyword) /\ startsWith(toUpperCase(OutputLines[i]), keyword)

\* C23: a cleaned text with an empty line, a comment or another kept line
\* before a directive
C23_Witness ==
    /\ cleaned.done /\ cleaned.ok
    /\ \E i, j \in 1..Len(InputLines) :
           i < j /\ IsKept(InputLines[i]) /\ ~IsKept(InputLines[j])

\* C28: cleanModelFile does not throw on a text that validateModelFile accepts,
\* and the text it returns has a FROM line with a model name
C28_AcceptedTextIsCleaned ==
    (validation.done /\ validation.isValid /\ cleaned.done)
        => /\ cleaned.ok
           /\ \E i \in 1..Len(OutputLines) :
                  /\ startsWith(OutputLines[i], FROM_)
                  /\ Len(OutputLines[i]) > Len(FROM_)

\* C28 witness: an accepted text of more than one line has been cleaned
C28_Witness ==
    /\ validation.done /\ validation.isValid
    /\ cleaned.done /\ cleaned.ok
    /\ Len(InputLines) > 1
    /\ ~startsWith(toUpperCase(trim(InputLines[1])), FROM_)

\* a character the daemon takes in a model name
IsNameChar(c) == IsLower(c) \/ IsDigit(c) \/ c \in {"_", "-"}

\* the requests to /api/create among the requests sent
CreateRequests == SelectSeq(requests, LAMBDA r : r.path = "/create")

\* C29: every name sent to /api/create is non-empty and made of lowercase letters,
\* digits, '_' and '-'; a given name without any letter, digit, '_' or '-' is never
\* followed by a request to /api/create
C29_NameSent ==
    /\ \A i \in 1..Len(CreateRequests) :
           /\ CreateRequests[i].body.name # <<>>
           /\ \A k \in 1..Len(CreateRequests[i].body.name) : IsNameChar(CreateRequests[i].body.name[k])
    /\ (\A k \in 1..Len(name) : ~IsNameChar(toLowerCase(<<name[k]>>)[1])) => CreateRequests = <<>>

\* C29 witness: a name with capitals and other characters has been sent, sanitized
C29_Witness ==
    /\ CreateRequests # <<>>
    /\ CreateRequests[1].body.name # trim(name)
    /\ \E k \in 1..Len(name) : IsUpper(name[k])

\* C24: after a response of /api/create that was not ok, the message thrown is the
\* error member of a JSON body that has one, else the body itself when it is not
\* empty and not JSON, else a generic message that starts with Failed to create model
C24_MessageFromBody ==
    (pc = "failed" /\ failure = "status")
        => IF JsonParse(errorText).ok /\ JsonParse(errorText).error # <<>>
           THEN errorMessage = JsonParse(errorText).error
           ELSE IF errorText # <<>> /\ ~JsonParse(errorText).ok
           THEN errorMessage = errorText
           ELSE startsWith(errorMessage, <<"F", "a", "i", "l", "e", "d", " ", "t", "o", " ", "c", "r", "e", "a", "t", "e", " ", "m", "o", "d", "e", "l">>)

\* test t has got its outcome in this step
SettlesNow(t) == tests[t].phase = "pending" /\ tests'[t].phase = "settled"

\* C25: a connectivity test that ends sets connectionStatus to connected after a reply
\* that is ok and to disconnected after any other outcome, and a status of testing
\* does not stay for ever
C25_TestSettles ==
    /\ [][\A t \in 1..Len(tests) :
              SettlesNow(t) => connectionStatus' = (IF tests'[t].outcome = "ok" THEN "connected" ELSE "disconnected")]_vars
    /\ (connectionStatus = "testing") ~> (connectionStatus # "testing")

\* C25 witness: a test has run into its timeout and the status is disconnected
C25_Witness ==
    /\ connectionStatus = "disconnected"
    /\ \E t \in 1..Len(tests) : tests[t].outcome = "timeout" /\ tests[t].limit > 0

\* the records of the stored collection
StoredRecords == {stored[i] : i \in 1..Len(stored)}

\* C27: once two saveModelFile calls with different names have both completed, the
\* records of both are in the stored collection
C27_BothSavesStored ==
    \A c \in 1..MaxSaves, d \in 1..MaxSaves :
        (saves[c].phase = "done" /\ saves[d].phase = "done" /\ saves[c].name # saves[d].name)
            => (saves[c].saved[1] \in StoredRecords /\ saves[d].saved[1] \in StoredRecords)

\* the clicks whose POST /api/create is in flight
Posting == {f \in 1..MaxFlows : flows[f].phase = "posting"}

\* C26: at most one POST /api/create of the wizard is in flight
C26_OnePostInFlight == Cardinality(Posting) <= 1

\* C30: currentStep is between 0 and 3, the step at currentStep and no other is marked
\* current, and the steps before currentStep and no others are marked completed
C30_StepMarks ==
    /\ currentStep \in 0..3
    /\ \A i \in 0..3 :
           /\ stepsState[i + 1].current <=> (i = currentStep)
           /\ stepsState[i + 1].completed <=> (i < currentStep)

\* C30 witness: the review step is shown with the three steps before it completed,
\* and a click on Create has run to its end
C30_Witness ==
    /\ currentStep = 3
    /\ stepsState[3].completed
    /\ \E f \in 1..MaxFlows : flows[f].phase = "over"

=============================================================================
